---------------------------- MODULE Spec2Model ----------------------------
(***************************************************************************)
(* Parvis / Pi-Jarvis voice assistant: intent classifier, conversation     *)
(* turn executor, wake-word gate and the assistant that ties them.         *)
(*                                                                         *)
(* Strings are sequences of symbols.  A symbol is a chunk of characters    *)
(* (a word stem, a suffix, a digit, a blank); the symbols are cut so that  *)
(* every keyword, phrase and regular expression of the source is a run of  *)
(* whole symbols, hence Python's `in` is contiguous-subsequence search and *)
(* str.lower / str.strip act symbol by symbol.                             *)
(* Optional[T] is a sequence of length 0 (None) or 1 (the value).          *)
(* Confidences are kept in tenths (0.3 is 3, 1.0 is 10).                   *)
(***************************************************************************)
EXTENDS Integers, Sequences, FiniteSets, TLC

None == <<>>
Some(x) == <<x>>
IsNone(o) == o = None
Val(o) == o[1]

(* ------------------------------ strings ------------------------------- *)

Whitespace == {" ", "\t"}
Digits == {"0", "1", "2", "3", "4", "5", "6", "7", "8", "9"}

\* str.lower(), one symbol
LowerSym(c) ==
    CASE c = "What" -> "what"
      [] c = "Set" -> "set"
      [] c = "Time" -> "time"
      [] c = "Camera" -> "camera"
      [] c = "Hello" -> "hello"
      [] c = "Look" -> "look"
      [] c = "How" -> "how"
      [] c = "Tell" -> "tell"
      [] c = "Describe" -> "describe"
      [] c = "Parvis" -> "parvis"
      [] c = "Start" -> "start"
      [] c = "Remind" -> "remind"
      [] c = "Hardware" -> "hardware"
      [] c = "Mock" -> "mock"
      [] c = "Spanish" -> "spanish"
      [] OTHER -> c

\* str.lower()
Lower(t) == [i \in 1..Len(t) |-> LowerSym(t[i])]

RECURSIVE LStrip(_)
LStrip(t) == IF t # <<>> /\ Head(t) \in Whitespace THEN LStrip(Tail(t)) ELSE t

RECURSIVE RStrip(_)
RStrip(t) ==
    IF t # <<>> /\ t[Len(t)] \in Whitespace THEN RStrip(SubSeq(t, 1, Len(t) - 1)) ELSE t

\* str.strip()
Strip(t) == RStrip(LStrip(t))

\* `not text or not text.strip()` on an Optional[str]
IsBlank(o) == IsNone(o) \/ Val(o) = <<>> \/ Strip(Val(o)) = <<>>

\* s occurs in t at offset p (0-based)
OccursAt(s, t, p) ==
    /\ p + Len(s) <= Len(t)
    /\ \A i \in 1..Len(s) : t[p + i] = s[i]

\* Python `s in t`
Contains(t, s) == \E p \in 0..Len(t) : OccursAt(s, t, p)

(* ----------------------- regular expressions -------------------------- *)
(* A pattern is a sequence of items: a choice among literal strings (an    *)
(* optional group is a choice that includes the empty string), \d+ or .+?; *)
(* an item with cap = TRUE is a capturing group.  A match state is the     *)
(* position reached and the groups captured so far.                        *)

Lit(s) == [k |-> "alt", alts |-> {s}, cap |-> FALSE]
Alt(S) == [k |-> "alt", alts |-> S, cap |-> FALSE]
Opt(s) == [k |-> "alt", alts |-> {s, <<>>}, cap |-> FALSE]
Grp(S) == [k |-> "alt", alts |-> S, cap |-> TRUE]
NumGrp == [k |-> "num", alts |-> {}, cap |-> TRUE]
AnyGrp == [k |-> "any", alts |-> {}, cap |-> TRUE]

\* the positions one item can reach from position p
ItemEnds(item, t, p) ==
    CASE item.k = "alt" -> {p + Len(a) : a \in {b \in item.alts : OccursAt(b, t, p)}}
      [] item.k = "num" -> {q \in (p + 1)..Len(t) : \A i \in (p + 1)..q : t[i] \in Digits}
      [] item.k = "any" -> (p + 1)..Len(t)

\* the match states one item can reach from state m
StepItem(item, t, m) ==
    {[p |-> q,
      caps |-> IF item.cap THEN Append(m.caps, SubSeq(t, m.p + 1, q)) ELSE m.caps]
        : q \in ItemEnds(item, t, m.p)}

RECURSIVE MatchFrom(_, _, _, _)
MatchFrom(pat, j, t, M) ==
    IF j > Len(pat) \/ M = {} THEN M
    ELSE MatchFrom(pat, j + 1, t, UNION {StepItem(pat[j], t, m) : m \in M})

\* every way the pattern matches t starting at offset p
MatchesAt(pat, t, p) == MatchFrom(pat, 1, t, {[p |-> p, caps |-> <<>>]})

\* re.search(pattern, t) is not None
ReSearch(pat, t) == \E p \in 0..Len(t) : MatchesAt(pat, t, p) # {}

\* re.search(pattern, t).groups(): the leftmost match; among the matches at
\* that offset the one the backtracking order finds first, which for the
\* patterns of this program (at most one lazy .+? group, placed first, and
\* greedy \d+ followed by a non-digit) is the one with the shortest group 1
\* and then the longest match
ReGroups(pat, t) ==
    LET p0 == CHOOSE p \in 0..Len(t) :
                  /\ MatchesAt(pat, t, p) # {}
                  /\ \A q \in 0..(p - 1) : MatchesAt(pat, t, q) = {}
        Ms == MatchesAt(pat, t, p0)
        lazy == pat[1].k = "any"
        best == CHOOSE m \in Ms : \A n \in Ms :
                    IF lazy /\ Len(m.caps[1]) # Len(n.caps[1])
                    THEN Len(m.caps[1]) < Len(n.caps[1])
                    ELSE m.p >= n.p
    IN best.caps

\* re.findall(r'\d+', t)[0]: the leftmost maximal run of digits, if any
FirstNumber(t) ==
    IF \A i \in 1..Len(t) : t[i] \notin Digits THEN None
    ELSE LET a == CHOOSE i \in 1..Len(t) :
                     t[i] \in Digits /\ \A j \in 1..(i - 1) : t[j] \notin Digits
             b == CHOOSE j \in a..Len(t) :
                     /\ \A i \in a..j : t[i] \in Digits
                     /\ (j = Len(t) \/ t[j + 1] \notin Digits)
         IN Some(SubSeq(t, a, b))

DigitVal(c) ==
    CASE c = "0" -> 0 [] c = "1" -> 1 [] c = "2" -> 2 [] c = "3" -> 3 [] c = "4" -> 4
      [] c = "5" -> 5 [] c = "6" -> 6 [] c = "7" -> 7 [] c = "8" -> 8 [] c = "9" -> 9

DigitSym(d) ==
    CASE d = 0 -> "0" [] d = 1 -> "1" [] d = 2 -> "2" [] d = 3 -> "3" [] d = 4 -> "4"
      [] d = 5 -> "5" [] d = 6 -> "6" [] d = 7 -> "7" [] d = 8 -> "8" [] d = 9 -> "9"

\* int(s) for a string of digits
RECURSIVE ParseInt(_)
ParseInt(s) ==
    IF s = <<>> THEN 0 ELSE 10 * ParseInt(SubSeq(s, 1, Len(s) - 1)) + DigitVal(s[Len(s)])

\* str(n) for n >= 0
RECURSIVE IntStr(_)
IntStr(n) == IF n < 10 THEN <<DigitSym(n)>> ELSE Append(IntStr(n \div 10), DigitSym(n % 10))

Min(a, b) == IF a < b THEN a ELSE b

(* --------------------------- intent handlers -------------------------- *)

SP == " "

IntentTypes == {"timer", "weather", "time", "translation", "general_chat", "vision", "unknown"}

\* IntentManager.intents, in registration order
Intents == <<"timer", "weather", "time", "translation">>

Units == {<<"minute">>, <<"second">>, <<"hour">>}
Languages == {<<"spanish">>, <<"french">>, <<"german">>}

Keywords(kind) ==
    CASE kind = "timer" ->
           << <<"time", "r">>, <<"alarm">>, <<"remind">>, <<"set", SP, "time", "r">>,
              <<"start", SP, "time", "r">>, <<"minute">>, <<"second">>, <<"hour">>,
              <<"countdown">>, <<"wake", SP, "me", SP, "up">> >>
      [] kind = "weather" ->
           << <<"weather">>, <<"temperature">>, <<"rain">>, <<"sunny">>, <<"cloudy">>,
              <<"forecast">>, <<"hot">>, <<"cold">>, <<"warm">>, <<"cool">>, <<"humid">>,
              <<"windy">>, <<"storm">> >>
      [] kind = "time" ->
           << <<"time">>, <<"clock">>, <<"hour">>, <<"date">>, <<"today">>, <<"now">>,
              <<"what", SP, "time">>, <<"current", SP, "time">>, <<"o", "'", "clock">> >>
      [] kind = "translation" ->
           << <<"translat", "e">>, <<"translat", "ion">>, <<"spanish">>, <<"french">>,
              <<"german">>, <<"how", SP, "do", SP, "you", SP, "say">>,
              <<"in", SP, "spanish">>, <<"in", SP, "french">>, <<"in", SP, "german">> >>

Patterns(kind) ==
    CASE kind = "timer" ->
           << <<Lit(<<"set", SP>>), Opt(<<"a", SP>>), Lit(<<"time", "r", SP>>),
                Opt(<<"for", SP>>), NumGrp, Opt(<<SP>>), Grp(Units), Opt(<<"s">>)>>,
              <<Alt({<<"start">>, <<"begin">>}), Lit(<<SP>>), Opt(<<"a", SP>>), NumGrp,
                Opt(<<SP>>), Grp(Units), Lit(<<SP, "time", "r">>)>>,
              <<Lit(<<"remind", SP, "me", SP, "in", SP>>), NumGrp, Opt(<<SP>>),
                Grp(Units), Opt(<<"s">>)>>,
              <<Lit(<<"time", "r", SP>>), Opt(<<"for", SP>>), NumGrp, Opt(<<SP>>),
                Grp(Units), Opt(<<"s">>)>>,
              <<Lit(<<"wake", SP, "me", SP>>), Opt(<<"up", SP>>), Lit(<<"in", SP>>),
                NumGrp, Opt(<<SP>>), Grp(Units), Opt(<<"s">>)>> >>
      [] kind = "weather" ->
           << <<Lit(<<"what">>), Opt(<<"'">>), Lit(<<"s", SP, "the", SP, "weather">>)>>,
              <<Lit(<<"how">>), Opt(<<"'">>), Lit(<<"s", SP, "the", SP, "weather">>)>>,
              <<Lit(<<"weather", SP>>),
                Alt({<<"forecast">>, <<"report">>, <<"today">>, <<"tomorrow">>})>>,
              <<Lit(<<"is", SP, "it", SP>>),
                Alt({<<"rain", "ing">>, <<"sunny">>, <<"cloudy">>, <<"hot">>, <<"cold">>})>>,
              <<Lit(<<"temperature", SP>>), Alt({<<"today">>, <<"outside">>, <<"now">>})>> >>
      [] kind = "time" ->
           << <<Lit(<<"what", SP, "time", SP, "is", SP, "it">>)>>,
              <<Lit(<<"what">>), Opt(<<"'">>), Lit(<<"s", SP, "the", SP, "time">>)>>,
              <<Lit(<<"current", SP, "time">>)>>,
              <<Lit(<<"what">>), Opt(<<"'">>), Lit(<<"s", SP, "today">>), Opt(<<"'">>),
                Lit(<<"s", SP, "date">>)>>,
              <<Lit(<<"what", SP, "date", SP, "is", SP, "it">>)>>,
              <<Lit(<<"tell", SP, "me", SP, "the", SP, "time">>)>> >>
      [] kind = "translation" ->
           << <<Lit(<<"translat", "e", SP>>), AnyGrp, Lit(<<SP>>),
                Alt({<<"to">>, <<"in", "to">>}), Lit(<<SP>>), Grp(Languages)>>,
              <<Lit(<<"how", SP, "do", SP, "you", SP, "say", SP>>), AnyGrp,
                Lit(<<SP, "in", SP>>), Grp(Languages)>>,
              <<Lit(<<"what", SP, "is", SP>>), AnyGrp, Lit(<<SP, "in", SP>>),
                Grp(Languages)>>,
              <<AnyGrp, Lit(<<SP, "in", SP>>), Grp(Languages)>> >>

\* a score that adds 0.3 for every keyword found, with no cap at 0.7
MatchScoreUncapped(keyword_matches, pattern_matched) ==
    Min(keyword_matches * 3 + (IF pattern_matched THEN 5 ELSE 0), 10)

\* Intent.matches lines 77-85, in tenths: the score from the number of
\* keywords found and whether some pattern matched
MatchScore(keyword_matches, pattern_matched) ==
    Min((IF keyword_matches > 0 THEN Min(keyword_matches * 3, 7) ELSE 0)
          + (IF pattern_matched THEN 5 ELSE 0), 10)

\* Intent.matches on the lowered text
MatchesLower(kws, pats, text_lower) ==
    MatchScore(Cardinality({i \in DOMAIN kws : Contains(text_lower, kws[i])}),
               \E i \in DOMAIN pats : ReSearch(pats[i], text_lower))

\* Intent.matches, in tenths
IntentMatches(kind, user_text) ==
    MatchesLower(Keywords(kind), Patterns(kind), Lower(user_text))

\* IntentResult
IntentResult(type, conf, text, ok, err, data) ==
    [intent_type |-> type, confidence |-> conf, response_text |-> text,
     success |-> ok, error_message |-> err, data |-> data]

\* dict.get(key, False) on the result's data
DataGet(data, key) == IF key \in DOMAIN data THEN data[key] ELSE FALSE

(* TimerIntent *)

UnitSeconds(unit) ==
    CASE unit = <<"second">> -> 1
      [] unit = <<"minute">> -> 60
      [] unit = <<"hour">> -> 3600

\* TimerIntent._parse_duration: Optional[int]
\* lines 169-177: the duration of a pattern match with groups g
GroupsDuration(g) == Some(ParseInt(g[1]) * UnitSeconds(g[2]))

\* NumbersDuration looking for "second" before "hour"
NumbersDurationSecondFirst(numbers, text) ==
    IF IsNone(numbers) THEN None
    ELSE IF Contains(text, <<"second">>) THEN Some(ParseInt(Val(numbers)))
    ELSE IF Contains(text, <<"hour">>) THEN Some(ParseInt(Val(numbers)) * 3600)
    ELSE Some(ParseInt(Val(numbers)) * 60)

\* lines 179-186: the fallback on the numbers found in the text
NumbersDuration(numbers, text) ==
    IF IsNone(numbers) THEN None
    ELSE IF Contains(text, <<"hour">>) THEN Some(ParseInt(Val(numbers)) * 3600)
    ELSE IF Contains(text, <<"second">>) THEN Some(ParseInt(Val(numbers)))
    ELSE Some(ParseInt(Val(numbers)) * 60)

RECURSIVE ParseDurationFrom(_, _, _)
ParseDurationFrom(pats, i, text) ==
    IF i > Len(pats) THEN NumbersDuration(FirstNumber(text), text)
    ELSE IF ReSearch(pats[i], text) THEN GroupsDuration(ReGroups(pats[i], text))
    ELSE ParseDurationFrom(pats, i + 1, text)

ParseDuration(text) == ParseDurationFrom(Patterns("timer"), 1, text)

Plural(n) == IF n # 1 THEN <<"s">> ELSE <<>>

\* TimerIntent._format_duration
FormatDuration(seconds) ==
    IF seconds < 60 THEN IntStr(seconds) \o <<SP, "second">> \o Plural(seconds)
    ELSE IF seconds < 3600
         THEN IntStr(seconds \div 60) \o <<SP, "minute">> \o Plural(seconds \div 60)
         ELSE IntStr(seconds \div 3600) \o <<SP, "hour">> \o Plural(seconds \div 3600)

\* f"timer_{int(time.time())}"
TimerId(clock) == <<"timer_">> \o IntStr(clock)

\* TimerIntent.handle: the result, the timer table and the completion tasks
\* lines 115-152 of TimerIntent.handle, given what _parse_duration returned
TimerSet(duration_seconds, timer_id, clock, timers, tasks) ==
    IF IsNone(duration_seconds)
    THEN [result |-> IntentResult("timer", 8,
                       <<"I couldn't understand the timer duration. Please say something like 'set a timer for 5 minutes'.">>,
                       FALSE, None, None),
          timers |-> timers, tasks |-> tasks]
    ELSE [result |-> IntentResult("timer", 9,
                       <<"Timer set for ">> \o FormatDuration(Val(duration_seconds))
                           \o <<". I'll let you know when it's done!">>,
                       TRUE, None,
                       Some([timer_id |-> timer_id, duration |-> Val(duration_seconds)])),
          timers |-> [id \in DOMAIN timers \cup {timer_id} |->
                         IF id = timer_id
                         THEN [duration |-> Val(duration_seconds),
                               end_time |-> clock + Val(duration_seconds),
                               description |-> FormatDuration(Val(duration_seconds))]
                         ELSE timers[id]],
          tasks |-> Append(tasks, [timer_id |-> timer_id,
                                   duration |-> Val(duration_seconds),
                                   due |-> clock + Val(duration_seconds)])]

TimerHandle(user_text, clock, timers, tasks) ==
    TimerSet(ParseDuration(Lower(user_text)), TimerId(clock), clock, timers, tasks)

(* WeatherIntent *)

WeatherHandle(user_text) ==
    IntentResult("weather", 9,
        <<"I'm an offline assistant and don't have access to current weather data. For weather information, I recommend checking your phone's weather app or asking a connected assistant like Siri or Google Assistant.">>,
        TRUE, None, Some([offline_response |-> TRUE]))

(* TimeIntent *)

Pad2(n) == IF n < 10 THEN <<"0">> \o IntStr(n) ELSE IntStr(n)

\* strftime("%I:%M %p") of a clock in seconds
ClockText(clock) ==
    LET h == (clock \div 3600) % 24
        m == (clock \div 60) % 60
    IN Pad2(IF h % 12 = 0 THEN 12 ELSE h % 12) \o <<":">> \o Pad2(m)
         \o <<SP, IF h < 12 THEN "AM" ELSE "PM">>

TimeHandle(user_text, clock) ==
    LET text_lower == Lower(user_text)
        response == IF Contains(text_lower, <<"date">>)
                    THEN <<"Today is ", "day ">> \o IntStr(clock \div 86400)
                    ELSE <<"It's currently ">> \o ClockText(clock)
    IN IntentResult("time", 9, response, TRUE, None, Some([timestamp |-> clock]))

(* TranslationIntent *)

Translations ==
    [w \in {<<"hello">>, <<"goodbye">>, <<"thank", SP, "you">>, <<"please">>, <<"yes">>,
            <<"no">>, <<"water">>, <<"food">>, <<"house">>, <<"good">>} |->
       CASE w = <<"hello">> -> [spanish |-> "hola", french |-> "bonjour", german |-> "hallo"]
         [] w = <<"goodbye">> -> [spanish |-> "adios", french |-> "au revoir", german |-> "auf wiedersehen"]
         [] w = <<"thank", SP, "you">> -> [spanish |-> "gracias", french |-> "merci", german |-> "danke"]
         [] w = <<"please">> -> [spanish |-> "por favor", french |-> "s'il vous plait", german |-> "bitte"]
         [] w = <<"yes">> -> [spanish |-> "si", french |-> "oui", german |-> "ja"]
         [] w = <<"no">> -> [spanish |-> "no", french |-> "non", german |-> "nein"]
         [] w = <<"water">> -> [spanish |-> "agua", french |-> "eau", german |-> "wasser"]
         [] w = <<"food">> -> [spanish |-> "comida", french |-> "nourriture", german |-> "essen"]
         [] w = <<"house">> -> [spanish |-> "casa", french |-> "maison", german |-> "haus"]
         [] w = <<"good">> -> [spanish |-> "bueno", french |-> "bon", german |-> "gut"]]

\* the first pattern that matches, or 0
RECURSIVE FirstPattern(_, _, _)
FirstPattern(pats, i, text) ==
    IF i > Len(pats) THEN 0
    ELSE IF ReSearch(pats[i], text) THEN i ELSE FirstPattern(pats, i + 1, text)

\* lines 364-381: the response for a word and a language
TranslationResponse(word_to_translate, target_language) ==
    IF word_to_translate \in DOMAIN Translations
    THEN IF target_language[1] \in DOMAIN Translations[word_to_translate]
         THEN <<"'">> \o word_to_translate \o <<"' in ">> \o target_language
                \o <<" is '", Translations[word_to_translate][target_language[1]], "'">>
         ELSE <<"I don't know how to say '">> \o word_to_translate
                \o <<"' in ">> \o target_language
                \o <<". I can translate to Spanish, French, or German.">>
    ELSE <<"I don't know how to translate '">> \o word_to_translate
           \o <<"'. I can translate these words: ",
                "hello, goodbye, thank you, please, yes, no, water, food, house, good">>

\* lines 355-392, given the word and the language extracted
Translate(word_to_translate, target_language) ==
    IF word_to_translate = <<>> \/ target_language = <<>>
    THEN IntentResult("translation", 8,
             <<"I couldn't understand what you want to translate. Try asking 'How do you say hello in Spanish?'">>,
             FALSE, None, None)
    ELSE IntentResult("translation", 9,
             TranslationResponse(word_to_translate, target_language), TRUE, None,
             Some([word |-> word_to_translate, language |-> target_language]))

\* lines 346-353: the groups of the first pattern that matches
TranslationGroups(pats, i, text_lower) ==
    IF i = 0 THEN <<<<>>, <<>>>> ELSE ReGroups(pats[i], text_lower)

TranslateGroups(g) == Translate(Strip(g[1]), Strip(g[2]))

TranslationHandleLower(pats, text_lower) ==
    TranslateGroups(TranslationGroups(pats, FirstPattern(pats, 1, text_lower), text_lower))

TranslationHandle(user_text) ==
    TranslationHandleLower(Patterns("translation"), Lower(user_text))

(* IntentManager *)

\* what is installed on the machine the program runs on
VARIABLE machine

VisionKeywords ==
    << <<"what", SP, "do", SP, "you", SP, "see">>, <<"what", SP, "can", SP, "you", SP, "see">>,
       <<"describe", SP, "what", SP, "you", SP, "see">>, <<"look", SP, "around">>,
       <<"tell", SP, "me", SP, "what", SP, "you", SP, "see">>,
       <<"what", "'", "s", SP, "in", SP, "front">>, <<"describe", SP, "the", SP, "scene">>,
       <<"what", "'", "s", SP, "there">>, <<"look", SP, "at">>, <<"vision">>, <<"camera">>,
       <<"image">>, <<"picture">>, <<"see", SP, "anything">> >>

\* IntentManager._is_vision_request (and ParvisAssistant._is_vision_request,
\* which has the same body), on an Optional[str]
IsVisionRequest(text) ==
    IF IsNone(text) \/ Val(text) = <<>> THEN FALSE
    ELSE \E i \in DOMAIN VisionKeywords : Contains(Lower(Val(text)), VisionKeywords[i])

\* a loop in which a later handler replaces a candidate of the same score
BetterOrEqual(prev, intent, confidence) ==
    IF confidence >= prev.confidence /\ confidence > 0
    THEN [intent |-> Some(intent), confidence |-> confidence]
    ELSE prev

\* the loop over self.intents: the candidate after the first i handlers,
\* starting from best_intent = None, best_confidence = 0.0
Better(prev, intent, confidence) ==
    IF confidence > prev.confidence
    THEN [intent |-> Some(intent), confidence |-> confidence]
    ELSE prev

RECURSIVE BestAfter(_, _)
BestAfter(i, user_text) ==
    IF i = 0 THEN [intent |-> None, confidence |-> 0]
    ELSE Better(BestAfter(i - 1, user_text), Intents[i],
                IntentMatches(Intents[i], user_text))

BestIntent(user_text) == BestAfter(Len(Intents), user_text)

\* the minimum confidence of line 439, in tenths
Threshold == 3

\* best_intent.handle(user_text, context)
Handle(kind, user_text, clock, timers, tasks) ==
    CASE kind = "timer" -> TimerHandle(user_text, clock, timers, tasks)
      [] kind = "weather" ->
           [result |-> WeatherHandle(user_text), timers |-> timers, tasks |-> tasks]
      [] kind = "time" ->
           [result |-> TimeHandle(user_text, clock), timers |-> timers, tasks |-> tasks]
      [] kind = "translation" ->
           [result |-> TranslationHandle(user_text), timers |-> timers, tasks |-> tasks]

\* IntentManager.classify_and_handle on an Optional[str]: the result, the
\* handler invoked (or None) and the manager's state after the call
\* a return that invoked no handler and left the manager's state alone
Unhandled(r, stats, timers, tasks) ==
    [result |-> r, handler |-> None, stats |-> stats, timers |-> timers, tasks |-> tasks]

\* Handled with the success counter incremented whatever the result
HandledCounted(kind, h, stats) ==
    [result |-> h.result,
     handler |-> Some(kind),
     stats |-> [stats EXCEPT ![kind].count = @ + 1, ![kind].success = @ + 1],
     timers |-> h.timers,
     tasks |-> h.tasks]

\* lines 441-452: the handler of `kind` returned h
Handled(kind, h, stats) ==
    [result |-> h.result,
     handler |-> Some(kind),
     stats |-> [stats EXCEPT ![kind].count = @ + 1,
                             ![kind].success = IF h.result.success THEN @ + 1 ELSE @],
     timers |-> h.timers,
     tasks |-> h.tasks]

\* HandlerRaised with the call counted as a success
HandlerRaisedCounted(kind, confidence, msg, stats, timers, tasks) ==
    [result |-> IntentResult(kind, confidence,
                    <<"Sorry, I had trouble processing your request.">>,
                    FALSE, Some(msg), None),
     handler |-> Some(kind),
     stats |-> [stats EXCEPT ![kind].count = @ + 1, ![kind].success = @ + 1],
     timers |-> timers,
     tasks |-> tasks]

\* HandlerRaised with nothing to say to the user
HandlerRaisedSilent(kind, confidence, msg, stats, timers, tasks) ==
    [result |-> IntentResult(kind, confidence, <<>>, FALSE, Some(msg), None),
     handler |-> Some(kind),
     stats |-> [stats EXCEPT ![kind].count = @ + 1],
     timers |-> timers,
     tasks |-> tasks]

\* lines 443-458: the handler of `kind` raised an exception with message msg
HandlerRaised(kind, confidence, msg, stats, timers, tasks) ==
    [result |-> IntentResult(kind, confidence,
                    <<"Sorry, I had trouble processing your request.">>,
                    FALSE, Some(msg), None),
     handler |-> Some(kind),
     stats |-> [stats EXCEPT ![kind].count = @ + 1],
     timers |-> timers,
     tasks |-> tasks]

\* Selected with the threshold met by a confidence equal to it
SelectedAtThreshold(best, user_text, clock, stats, timers, tasks) ==
    IF ~IsNone(best.intent) /\ best.confidence >= Threshold
    THEN Handled(Val(best.intent),
                 Handle(Val(best.intent), user_text, clock, timers, tasks), stats)
    ELSE Unhandled(IntentResult("general_chat", 5, <<"Let me think about that.">>,
                       TRUE, None, Some([delegate_to_llm |-> TRUE])),
                   stats, timers, tasks)

\* lines 439-467: the best candidate against the threshold; machine.handler
\* is the exception the registered handlers' handle raises, if any
Selected(best, user_text, clock, stats, timers, tasks) ==
    IF ~IsNone(best.intent) /\ best.confidence > Threshold
    THEN IF ~IsNone(machine.handler)
         THEN HandlerRaised(Val(best.intent), best.confidence, Val(machine.handler),
                            stats, timers, tasks)
         ELSE Handled(Val(best.intent),
                      Handle(Val(best.intent), user_text, clock, timers, tasks), stats)
    ELSE Unhandled(IntentResult("general_chat", 5, <<"Let me think about that.">>,
                       TRUE, None, Some([delegate_to_llm |-> TRUE])),
                   stats, timers, tasks)

\* ClassifyAndHandle with the vision check made only when no handler scores
\* above the threshold
ClassifyScoresFirst(user_text, clock, stats, timers, tasks) ==
    IF IsBlank(user_text)
    THEN Unhandled(IntentResult("unknown", 0,
                       <<"I didn't hear anything. Could you please repeat that?">>,
                       FALSE, None, None),
                   stats, timers, tasks)
    ELSE IF IsVisionRequest(user_text) /\ BestIntent(Val(user_text)).confidence <= Threshold
    THEN Unhandled(IntentResult("vision", 9,
                       <<"Vision request detected - delegating to vision system">>,
                       TRUE, None, Some([delegate_to_vision |-> TRUE])),
                   stats, timers, tasks)
    ELSE Selected(BestIntent(Val(user_text)), Val(user_text), clock, stats, timers, tasks)

\* ClassifyAndHandle testing `not user_text` alone, without the strip
ClassifyUnstripped(user_text, clock, stats, timers, tasks) ==
    IF IsNone(user_text) \/ Val(user_text) = <<>>
    THEN Unhandled(IntentResult("unknown", 0,
                       <<"I didn't hear anything. Could you please repeat that?">>,
                       FALSE, None, None),
                   stats, timers, tasks)
    ELSE IF IsVisionRequest(user_text)
    THEN Unhandled(IntentResult("vision", 9,
                       <<"Vision request detected - delegating to vision system">>,
                       TRUE, None, Some([delegate_to_vision |-> TRUE])),
                   stats, timers, tasks)
    ELSE Selected(BestIntent(Val(user_text)), Val(user_text), clock, stats, timers, tasks)

ClassifyAndHandle(user_text, clock, stats, timers, tasks) ==
    IF IsBlank(user_text)
    THEN Unhandled(IntentResult("unknown", 0,
                       <<"I didn't hear anything. Could you please repeat that?">>,
                       FALSE, None, None),
                   stats, timers, tasks)
    ELSE IF IsVisionRequest(user_text)
    THEN Unhandled(IntentResult("vision", 9,
                       <<"Vision request detected - delegating to vision system">>,
                       TRUE, None, Some([delegate_to_vision |-> TRUE])),
                   stats, timers, tasks)
    ELSE Selected(BestIntent(Val(user_text)), Val(user_text), clock, stats, timers, tasks)

(* ------------------------------- state -------------------------------- *)

VARIABLES
    now,                    \* time.time(), in whole seconds
    intent_stats,           \* IntentManager.intent_stats
    active_timers,          \* TimerIntent.active_timers
    timer_tasks,            \* the _timer_completion tasks created and not yet finished
    mode,                   \* SpeechPipeline.mode
    is_initialized,         \* SpeechPipeline.is_initialized
    conversation_history,   \* SpeechPipeline.conversation_history
    pc,                     \* where the process_voice_input coroutine is suspended
    turn,                   \* its ConversationTurn; once it has returned, the turn returned
    simulate_text,          \* its simulate_text argument
    total_start,            \* its local total_start
    stage_start,            \* its local stt_start / llm_start / tts_start
    calls,                  \* the collaborators it has called so far, in order, and
                            \* "raise" for an exception that reached its except clause
    ncalls,                 \* how many calls the caller has made so far
    last_intent,            \* the last classify_and_handle call: its text, result and handler
    stt_audio,              \* WhisperSTT.audio: "none", "open" or "terminated"
    llm_backend,            \* LLMEngine.backend: "none", "ollama" or "llamacpp"
    llm_initialized,        \* LLMEngine.is_initialized
    options,                \* use_mock_hotword and enable_vision, as the program was started
    detector,               \* the hot-word detector created: "none", "mock" or "real"
    porcupine,              \* ParvisHotwordDetector.porcupine and audio_stream: "none" or "ready"
    vision_pipeline,        \* ParvisAssistant.vision_pipeline: "none" or "ready"
    is_running,             \* ParvisAssistant.is_running
    on_wake_word,           \* the detector's callback: "none", "coroutine" or "plain"
    is_listening,           \* the detector's is_listening
    stack,                  \* the coroutines suspended in the listening task, outermost first
    triggers,               \* how many times the detector has detected the wake word
    invoked,                \* how many times the wake-word callback has been invoked
    raised,                 \* how many of these invocations raised
    description,            \* what describe_scene returned last
    loop,                   \* conversation_loop: its max_turns, turn_num and
                            \* conversation_turns, and where it stands
    vision,                 \* the VisionPipeline: is_initialized, its statistics, and
                            \* what its last analyze_scene call met and returned
    cli                     \* the process: its entry point, sys.argv[1:] and how far it got

intentVars == <<intent_stats, active_timers, timer_tasks, last_intent>>
engineVars == <<stt_audio, llm_backend, llm_initialized>>
coroVars == <<pc, turn, simulate_text, total_start, stage_start, calls, ncalls>>
pipeVars == <<mode, is_initialized, conversation_history>>
gateCfg == <<options, detector, porcupine, vision_pipeline, is_running, on_wake_word, vision>>
gateDyn == <<is_listening, stack, triggers, invoked, raised, description, loop>>
gateVars == <<gateCfg, gateDyn>>
vars == <<now, machine, cli, intentVars, engineVars, coroVars, pipeVars, gateVars>>

(* ------------------------------- bounds ------------------------------- *)

MaxNow == 1
MaxTurns == 2
MaxTriggers == 2

(* --------------------------- SpeechPipeline --------------------------- *)

PipelineModes == {"hardware", "simulation", "text_only"}

\* pipeline.py line 25: the import of the intent system succeeds
INTENTS_AVAILABLE == TRUE

\* ConversationTurn() with its field defaults
NewTurn ==
    [user_audio_file |-> None, user_text |-> None, assistant_text |-> None,
     assistant_audio_file |-> None, stt_time |-> 0, llm_time |-> 0, tts_time |-> 0,
     total_time |-> 0, success |-> FALSE, error_message |-> None]

DefaultGreeting ==
    <<"Hello", SP, "Pi-Jarvis", ",", SP, "how", SP, "are", SP, "you", SP, "today", "?">>

VisionPlaceholder ==
    <<"Let me take a look around... I can see various objects in the scene.">>

(* The coroutine between two suspension points.  c is the part of the state *)
(* a step of process_voice_input can change: the turn, the program counter, *)
(* its locals, the history, the intent manager's state and the call log.    *)

\* an exception that leaves process_voice_input: the caller gets no turn
RaisedEscapes(c, msg) ==
    [c EXCEPT !.calls = Append(c.calls, "raise"), !.pc = "idle"]

\* lines 227-231: except Exception as e
Raised(c, msg) ==
    [c EXCEPT !.turn = [c.turn EXCEPT !.error_message = Some(msg),
                                      !.total_time = now - c.total_start],
              !.calls = Append(c.calls, "raise"),
              !.pc = "idle"]

\* lines 212-225: success
Complete(c) ==
    LET t == [c.turn EXCEPT !.success = TRUE, !.total_time = now - c.total_start]
    IN [c EXCEPT !.turn = t, !.pc = "idle", !.hist = Append(c.hist, t)]

\* an early `return turn` with error_message set
Abort(c, msg) ==
    [c EXCEPT !.turn = [c.turn EXCEPT !.error_message = Some(msg),
                                      !.total_time = now - c.total_start],
              !.pc = "idle"]

\* SynthDone with the turn recorded before the synthesizer's result is looked at
SynthDoneRecorded(c, speech_success) ==
    IF ~speech_success
    THEN [Abort([c EXCEPT !.turn.tts_time = now - c.stage_start], "Text-to-speech failed")
            EXCEPT !.hist = Append(c.hist, [c.turn EXCEPT !.tts_time = now - c.stage_start])]
    ELSE Complete([c EXCEPT !.turn.tts_time = now - c.stage_start])

\* SynthDone reporting a failed synthesis as a missing response
SynthDoneNoResponse(c, speech_success) ==
    IF ~speech_success
    THEN Abort([c EXCEPT !.turn.tts_time = now - c.stage_start], "No response generated")
    ELSE Complete([c EXCEPT !.turn.tts_time = now - c.stage_start])

\* lines 202-207, after _text_to_speech returned speech_success
SynthDone(c, speech_success) ==
    LET c1 == [c EXCEPT !.turn.tts_time = now - c.stage_start]
    IN IF ~speech_success THEN Abort(c1, "Text-to-speech failed") ELSE Complete(c1)

\* lines 196-200: _text_to_speech suspends in hardware and simulation mode
\* and returns True at once in text-only mode
Synthesize(c) ==
    LET c1 == [c EXCEPT !.stage_start = now, !.calls = Append(c.calls, "tts")]
    IN IF mode = "text_only" THEN SynthDone(c1, TRUE) ELSE [c1 EXCEPT !.pc = "tts"]

\* Respond without the check of lines 188-191
RespondUnchecked(c, assistant_text) ==
    Synthesize([c EXCEPT !.turn.llm_time = now - c.stage_start,
                         !.turn.assistant_text = assistant_text])

\* lines 186-194, with assistant_text an Optional[str]
Respond(c, assistant_text) ==
    LET c1 == [c EXCEPT !.turn.llm_time = now - c.stage_start,
                        !.turn.assistant_text = assistant_text]
    IN IF IsBlank(assistant_text) THEN Abort(c1, "No response generated")
       ELSE Synthesize(c1)

\* line 179 / 184: await llm_engine.generate(...)
Generate(c) == [c EXCEPT !.calls = Append(c.calls, "generate"), !.pc = "llm"]

\* Routed with every request handed to the language model
RoutedToModel(c, intent_result) == Generate(c)

\* lines 156-184: classification and routing
\* lines 163-181: what the turn does with the classifier's result
Routed(c, intent_result) ==
    IF intent_result.success /\ IsNone(intent_result.data)
    THEN Raised(c, "'NoneType' object has no attribute 'get'")
    ELSE IF /\ intent_result.success
            /\ ~DataGet(Val(intent_result.data), "delegate_to_llm")
            /\ ~DataGet(Val(intent_result.data), "delegate_to_vision")
    THEN Respond(c, Some(intent_result.response_text))
    ELSE IF /\ ~IsNone(intent_result.data)
            /\ DataGet(Val(intent_result.data), "delegate_to_vision")
    THEN Respond(c, Some(VisionPlaceholder))
    ELSE Generate(c)

\* what a classify_and_handle call leaves to observe
IntentCall(user_text, r) ==
    Some([user_text |-> user_text, result |-> r.result, handler |-> r.handler])

\* lines 158-160: the classifier returned r
Classified(c, user_text, r) ==
    Routed([c EXCEPT !.stats = r.stats, !.timers = r.timers, !.tasks = r.tasks,
                     !.intent = IntentCall(user_text, r),
                     !.calls = Append(c.calls, "classify")],
           r.result)

\* lines 156-184: classification and routing
Route(c, user_text) ==
    IF INTENTS_AVAILABLE
    THEN IF ~IsNone(machine.intents)
         THEN Raised([c EXCEPT !.stage_start = now, !.calls = Append(c.calls, "classify")],
                     Val(machine.intents))
         ELSE Classified([c EXCEPT !.stage_start = now], user_text,
                         ClassifyAndHandle(user_text, now, c.stats, c.timers, c.tasks))
    ELSE Generate([c EXCEPT !.stage_start = now])

\* Acquired without the check of lines 147-150
AcquiredUnchecked(c, user_text) ==
    Route([c EXCEPT !.turn.stt_time = now - c.stage_start,
                    !.turn.user_text = user_text], user_text)

\* lines 144-152, with user_text an Optional[str]
Acquired(c, user_text) ==
    LET c1 == [c EXCEPT !.turn.stt_time = now - c.stage_start,
                        !.turn.user_text = user_text]
    IN IF IsBlank(user_text)
       THEN Abort(c1, "No speech detected or transcription failed")
       ELSE Route(c1, user_text)

\* the state a step of the coroutine starts from
Coro ==
    [turn |-> turn, pc |-> pc, hist |-> conversation_history, stats |-> intent_stats,
     timers |-> active_timers, tasks |-> timer_tasks, intent |-> last_intent,
     calls |-> calls,
     total_start |-> total_start, stage_start |-> stage_start]

\* the state a step of the coroutine leaves; its locals end when it returns
Becomes(c) ==
    /\ turn' = c.turn
    /\ pc' = c.pc
    /\ conversation_history' = c.hist
    /\ intent_stats' = c.stats
    /\ active_timers' = c.timers
    /\ timer_tasks' = c.tasks
    /\ last_intent' = c.intent
    /\ calls' = c.calls
    /\ total_start' = IF c.pc = "idle" THEN 0 ELSE c.total_start
    /\ stage_start' = IF c.pc = "idle" THEN 0 ELSE c.stage_start

(* --------------------------- wake-word gate --------------------------- *)

Top(st) == IF st = <<>> THEN "" ELSE st[Len(st)]

\* the number of _on_parvis_detected invocations that have not returned
Active(st) == Cardinality({i \in DOMAIN st : st[i] = "_on_parvis_detected"})

\* the frames up to the innermost _on_parvis_detected
CallbackFrames(st) ==
    SubSeq(st, 1, CHOOSE i \in DOMAIN st :
                     /\ st[i] = "_on_parvis_detected"
                     /\ \A j \in DOMAIN st : j > i => st[j] # "_on_parvis_detected")

\* the part of the state a step of the listening task can change
Gate ==
    [is_listening |-> is_listening, stack |-> stack, triggers |-> triggers,
     invoked |-> invoked, raised |-> raised, description |-> description,
     loop |-> loop]

GateBecomes(g) ==
    /\ is_listening' = g.is_listening
    /\ stack' = g.stack
    /\ triggers' = g.triggers
    /\ invoked' = g.invoked
    /\ raised' = g.raised
    /\ description' = g.description
    /\ loop' = g.loop

\* start_listening, hotword.py lines 136-143 and 221-223: the real detector
\* returns at once unless it is initialized; otherwise the loop is entered
StartListening(g) ==
    IF detector = "real" /\ porcupine # "ready" THEN g
    ELSE [g EXCEPT !.is_listening = TRUE, !.stack = Append(g.stack, "start_listening")]

\* _on_parvis_detected returning after _handle_conversation without the
\* start_listening of line 119
ConversationDoneSilent(g) ==
    [g EXCEPT !.stack = SubSeq(g.stack, 1, Len(CallbackFrames(g.stack)) - 1)]

\* the frames a return unwinds without a suspension point. _on_parvis_detected
\* returns to the loop that awaited it: the mock loop tests is_listening at
\* once (hotword.py line 227) and returns if it is false, the real loop
\* sleeps first (line 169). start_listening returns to _on_parvis_detected,
\* which returns in turn (parvis.py lines 119 and 125), or to start(), whose
\* finally clause runs stop() and returns (lines 261-262)
RECURSIVE CallbackReturned(_), ListenReturned(_)
CallbackReturned(g) ==
    IF detector = "mock" /\ ~g.is_listening
    THEN ListenReturned([g EXCEPT !.stack = SubSeq(g.stack, 1, Len(g.stack) - 2)])
    ELSE [g EXCEPT !.stack = SubSeq(g.stack, 1, Len(g.stack) - 1)]

ListenReturned(g) ==
    CASE Top(g.stack) = "_on_parvis_detected" -> CallbackReturned(g)
      [] Top(g.stack) = "start" -> [g EXCEPT !.stack = <<>>]
      [] OTHER -> g

\* _on_parvis_detected that resumes the detection without testing is_running
ConversationDoneAlways(g) ==
    StartListening([g EXCEPT !.stack = CallbackFrames(g.stack)])

\* _on_parvis_detected lines 116-119, after _handle_conversation returned
ConversationDone(g) ==
    IF is_running
    THEN StartListening([g EXCEPT !.stack = CallbackFrames(g.stack)])
    ELSE CallbackReturned([g EXCEPT !.stack = CallbackFrames(g.stack)])

\* _handle_vision_request lines 206-214, up to the await of describe_scene
HandleVisionRequest(g) ==
    IF vision_pipeline = "none" THEN ConversationDone(g)
    ELSE [g EXCEPT !.stack = Append(g.stack, "_handle_vision_request")]

\* _handle_conversation lines 162-173, after process_voice_input returned t
AfterTurn(g, t) ==
    IF t.success /\ IsVisionRequest(IF IsNone(t.user_text) THEN Some(<<>>) ELSE t.user_text)
    THEN HandleVisionRequest(g)
    ELSE ConversationDone(g)

\* _on_parvis_detected entered without the stop_listening of line 111
DetectedListening(g) ==
    [g EXCEPT !.triggers = @ + 1, !.invoked = @ + 1,
              !.stack = g.stack \o <<"_on_parvis_detected", "_handle_conversation">>]

\* the detector awaits _on_parvis_detected, which stops the detection and
\* awaits _handle_conversation: parvis.py lines 105-114
Detected(g) ==
    [g EXCEPT !.is_listening = FALSE, !.triggers = @ + 1, !.invoked = @ + 1,
              !.stack = g.stack \o <<"_on_parvis_detected", "_handle_conversation">>]

\* a loop that appends the turn and goes on whether it succeeded or not
LoopTurnNoBreak(g, t) ==
    [g EXCEPT !.loop.conversation_turns = Append(@, t), !.loop.state = "sleeping"]

\* conversation_loop lines 322-329, after process_voice_input returned t: the
\* turn is appended; a failed turn ends the loop, which then returns, and
\* after any other the loop sleeps
LoopTurn(g, t) ==
    IF ~t.success
    THEN [g EXCEPT !.loop.conversation_turns = Append(@, t), !.loop.state = "returned",
                   !.stack = SubSeq(g.stack, 1, Len(g.stack) - 1)]
    ELSE [g EXCEPT !.loop.conversation_turns = Append(@, t), !.loop.state = "sleeping"]

\* process_voice_input returns to _handle_conversation or to
\* conversation_loop if that is its caller
Resumes ==
    CASE Top(stack) = "_handle_conversation" /\ pc' = "idle" ->
            GateBecomes(AfterTurn(Gate, turn'))
      [] Top(stack) = "conversation_loop" /\ pc' = "idle" ->
            GateBecomes(LoopTurn(Gate, turn'))
      [] OTHER -> UNCHANGED gateDyn

(* ------------------------------ inputs -------------------------------- *)

\* what a caller passes as simulate_text, what the microphone hears
Utterances ==
    { None,
      Some(<<>>),
      Some(<<SP>>),
      Some(<<"What", SP, "do", SP, "you", SP, "see", "?">>),
      Some(<<"Set", SP, "a", SP, "time", "r", SP, "for", SP, "1", SP, "second">>),
      Some(<<"time", "r", SP, "alarm">>),
      Some(<<"What", SP, "time", SP, "is", SP, "it", "?">>),
      Some(<<"Hello">>) }

\* stt_engine.transcribe_speech returns None or the stripped transcription
SttOutcomes == {u \in Utterances : IsNone(u) \/ Strip(Val(u)) = Val(u)}

\* llm_engine.generate returns None or the stripped completion
LLMOutputs == {None, Some(<<>>), Some(<<"I am doing well.">>)}

\* str(e) of an exception that escapes a collaborator
ExceptionMessages == {"", "[Errno 2] No such file or directory"}

(* ------------------------- SpeechPipeline actions --------------------- *)

\* what initialization can find on the machine: the whisper model and binary
\* ("missing", "helpfail" when the binary's --help run fails, "ok"), the
\* `ollama` command, the ollama service answering with a model, the
\* llama.cpp binary, a model file for it; `intents` is the exception that
\* escapes classify_and_handle on this machine, if any, and `handler` the
\* exception that the handle method of the handlers registered raises, if any
Machine(stt, ollama_cli, ollama_ready, llamacpp_bin, model_file) ==
    [stt |-> stt, ollama_cli |-> ollama_cli, ollama_ready |-> ollama_ready,
     llamacpp_bin |-> llamacpp_bin, model_file |-> model_file,
     porcupine |-> "ok", vision |-> TRUE, intents |-> None, handler |-> None]

Machines ==
    { Machine("ok", TRUE, TRUE, TRUE, TRUE),
      Machine("ok", TRUE, FALSE, TRUE, TRUE),
      Machine("ok", FALSE, FALSE, TRUE, TRUE),
      Machine("ok", FALSE, FALSE, TRUE, FALSE),
      Machine("ok", FALSE, FALSE, FALSE, FALSE),
      Machine("missing", TRUE, TRUE, FALSE, FALSE),
      Machine("helpfail", TRUE, TRUE, FALSE, FALSE),
      [Machine("ok", TRUE, TRUE, TRUE, TRUE) EXCEPT !.intents = Some("intent manager failed")] }

\* WhisperSTT.initialize
SttInitialize(m) == m.stt = "ok"

\* LLMEngine.initialize, lines 32-42: the backend chosen
LlmBackend(m) ==
    IF m.ollama_cli THEN "ollama"
    ELSE IF m.llamacpp_bin THEN "llamacpp" ELSE "none"

\* OllamaLLM.initialize / LlamaCppLLM.initialize of the backend chosen
BackendInitialize(m) ==
    CASE LlmBackend(m) = "ollama" -> m.ollama_ready
      [] LlmBackend(m) = "llamacpp" -> m.llamacpp_bin /\ m.model_file
      [] OTHER -> FALSE

\* PipelineInitialize with is_initialized set as soon as the speech engine is
\* ready, whatever the language model's initialization returns
PipelineInitializeEager(needs_stt, m) ==
    /\ stt_audio' = IF needs_stt /\ m.stt # "missing" THEN "open" ELSE stt_audio
    /\ IF needs_stt /\ ~SttInitialize(m)
       THEN UNCHANGED <<llm_backend, llm_initialized, is_initialized>>
       ELSE /\ is_initialized' = TRUE
            /\ IF LlmBackend(m) = "none"
               THEN UNCHANGED <<llm_backend, llm_initialized>>
               ELSE /\ llm_backend' = LlmBackend(m)
                    /\ llm_initialized' = BackendInitialize(m)

\* SpeechPipeline.initialize, lines 74-107: what it does
PipelineInitialize(needs_stt, m) ==
    /\ stt_audio' = IF needs_stt /\ m.stt # "missing" THEN "open" ELSE stt_audio
    /\ IF needs_stt /\ ~SttInitialize(m)
       THEN UNCHANGED <<llm_backend, llm_initialized, is_initialized>>
       ELSE IF LlmBackend(m) = "none"
       THEN UNCHANGED <<llm_backend, llm_initialized, is_initialized>>
       ELSE /\ llm_backend' = LlmBackend(m)
            /\ llm_initialized' = BackendInitialize(m)
            /\ is_initialized' = IF BackendInitialize(m) THEN TRUE ELSE is_initialized

\* SpeechPipeline.initialize: what it returns
PipelineReady(needs_stt, m) ==
    /\ needs_stt => SttInitialize(m)
    /\ LlmBackend(m) # "none"
    /\ BackendInitialize(m)

\* a caller other than the assistant calls SpeechPipeline.initialize
Initialize ==
    /\ pc = "idle" /\ stack = <<>>
    /\ PipelineInitialize(mode \in {"hardware", "simulation"}, machine)
    /\ UNCHANGED <<now, machine, cli, intentVars, coroVars, mode, conversation_history,
                    gateVars>>

\* process_voice_input(simulate_text = text) up to its first suspension
\* point, lines 119-143
Call(text) ==
    /\ ncalls' = ncalls + 1
    /\ simulate_text' = IF is_initialized /\ mode = "simulation" THEN text ELSE None
    /\ IF ~is_initialized
       THEN /\ turn' = [NewTurn EXCEPT !.error_message = Some("Pipeline not initialized")]
            /\ calls' = <<>>
            /\ last_intent' = None
            /\ UNCHANGED <<pc, total_start, stage_start, conversation_history,
                            intent_stats, active_timers, timer_tasks>>
       ELSE LET c == [Coro EXCEPT !.turn = NewTurn, !.calls = <<>>, !.intent = None,
                                  !.total_start = now, !.stage_start = now]
            IN CASE mode = "hardware" ->
                      Becomes([c EXCEPT !.pc = "stt", !.calls = <<"stt">>])
                 [] mode = "simulation" -> Becomes([c EXCEPT !.pc = "stt"])
                 [] mode = "text_only" -> Becomes(Acquired(c, text))

\* a caller other than the assistant calls process_voice_input; hardware mode
\* does not read simulate_text, which is then left at its default
ProcessVoiceInput(text) ==
    /\ pc = "idle" /\ stack = <<>>
    /\ mode = "hardware" => IsNone(text)
    /\ ncalls < MaxTurns
    /\ Call(text)
    /\ UNCHANGED <<now, machine, cli, engineVars, mode, is_initialized, gateVars>>

\* hardware mode: stt_engine.transcribe_speech returns
SttDone(user_text) ==
    /\ pc = "stt" /\ mode = "hardware"
    /\ Becomes(Acquired(Coro, user_text))
    /\ simulate_text' = IF pc' = "idle" THEN None ELSE simulate_text
    /\ Resumes
    /\ UNCHANGED <<now, machine, cli, engineVars, mode, is_initialized, ncalls, gateCfg>>

\* hardware mode: stt_engine.transcribe_speech raises
SttRaise(msg) ==
    /\ pc = "stt" /\ mode = "hardware"
    /\ Becomes(Raised(Coro, msg))
    /\ simulate_text' = IF pc' = "idle" THEN None ELSE simulate_text
    /\ Resumes
    /\ UNCHANGED <<now, machine, cli, engineVars, mode, is_initialized, ncalls, gateCfg>>

\* simulation mode: asyncio.sleep(0.5) ends
SimSttDone ==
    /\ pc = "stt" /\ mode = "simulation"
    /\ Becomes(Acquired(Coro, IF IsNone(simulate_text) \/ Val(simulate_text) = <<>>
                              THEN Some(DefaultGreeting) ELSE simulate_text))
    /\ simulate_text' = IF pc' = "idle" THEN None ELSE simulate_text
    /\ Resumes
    /\ UNCHANGED <<now, machine, cli, engineVars, mode, is_initialized, ncalls, gateCfg>>

\* llm_engine.generate returns
GenerateDone(text) ==
    /\ pc = "llm"
    /\ llm_initialized \/ IsNone(text)
    /\ Becomes(Respond(Coro, text))
    /\ simulate_text' = IF pc' = "idle" THEN None ELSE simulate_text
    /\ Resumes
    /\ UNCHANGED <<now, machine, cli, engineVars, mode, is_initialized, ncalls, gateCfg>>

\* llm_engine.generate raises
GenerateRaise(msg) ==
    /\ pc = "llm"
    /\ Becomes(Raised(Coro, msg))
    /\ simulate_text' = IF pc' = "idle" THEN None ELSE simulate_text
    /\ Resumes
    /\ UNCHANGED <<now, machine, cli, engineVars, mode, is_initialized, ncalls, gateCfg>>

\* _text_to_speech returns: espeak's exit status in hardware mode (False also
\* when starting espeak raised, lines 278-280), True after the sleep in
\* simulation mode
TtsDone(speech_success) ==
    /\ pc = "tts"
    /\ mode = "simulation" => speech_success
    /\ Becomes(SynthDone(Coro, speech_success))
    /\ simulate_text' = IF pc' = "idle" THEN None ELSE simulate_text
    /\ Resumes
    /\ UNCHANGED <<now, machine, cli, engineVars, mode, is_initialized, ncalls, gateCfg>>

\* Cleanup that also clears the conversation history
CleanupClearing ==
    /\ stt_audio' = IF stt_audio = "none" THEN "none" ELSE "terminated"
    /\ conversation_history' = <<>>
    /\ UNCHANGED <<now, machine, cli, intentVars, coroVars, mode, is_initialized, llm_backend,
                    llm_initialized, gateVars>>

\* SpeechPipeline.cleanup
Cleanup ==
    /\ stt_audio' = IF stt_audio = "none" THEN "none" ELSE "terminated"
    /\ UNCHANGED <<now, machine, cli, intentVars, coroVars, pipeVars, llm_backend,
                    llm_initialized, gateVars>>

\* TimerCompletion with the completion announced in the turn in progress
TimerCompletionAnnounced(i) ==
    LET task == timer_tasks[i]
    IN /\ now >= task.due
       /\ timer_tasks' = [j \in 1..(Len(timer_tasks) - 1) |->
                            IF j < i THEN timer_tasks[j] ELSE timer_tasks[j + 1]]
       /\ active_timers' = [id \in DOMAIN active_timers \ {task.timer_id} |->
                              active_timers[id]]
       /\ turn' = [turn EXCEPT !.assistant_text = Some(<<"Timer completed">>)]
       /\ UNCHANGED <<now, machine, cli, intent_stats, last_intent, engineVars, pc,
                       simulate_text, total_start, stage_start, calls, ncalls,
                       pipeVars, gateVars>>

\* TimerIntent._timer_completion, after its sleep
TimerCompletion(i) ==
    LET task == timer_tasks[i]
    IN /\ now >= task.due
       /\ timer_tasks' = [j \in 1..(Len(timer_tasks) - 1) |->
                            IF j < i THEN timer_tasks[j] ELSE timer_tasks[j + 1]]
       /\ active_timers' = [id \in DOMAIN active_timers \ {task.timer_id} |->
                              active_timers[id]]
       /\ UNCHANGED <<now, machine, cli, intent_stats, last_intent, engineVars, coroVars,
                       pipeVars, gateVars>>

\* a second passes
Tick ==
    /\ now < MaxNow
    /\ now' = now + 1
    /\ UNCHANGED <<machine, cli, intentVars, engineVars, coroVars, pipeVars, gateVars>>

ZeroStats == [k \in {Intents[i] : i \in DOMAIN Intents} |-> [count |-> 0, success |-> 0]]

\* conversation_loop has not been called
NoLoop == [state |-> "none", max_turns |-> 0, turn_num |-> 0, conversation_turns |-> <<>>]

\* the objects are constructed by a caller, not by an entry point
NoCli == [entry |-> "none", argv |-> <<>>, state |-> "none"]

\* the state after construction, whatever the machine and the mode
Fresh ==
    /\ now = 0
    /\ intent_stats = ZeroStats
    /\ active_timers = <<>>
    /\ timer_tasks = <<>>
    /\ last_intent = None
    /\ is_initialized = FALSE
    /\ conversation_history = <<>>
    /\ pc = "idle"
    /\ turn = NewTurn
    /\ simulate_text = None
    /\ total_start = 0
    /\ stage_start = 0
    /\ calls = <<>>
    /\ ncalls = 0
    /\ stt_audio = "none"
    /\ llm_backend = "none"
    /\ llm_initialized = FALSE
    /\ detector = "none"
    /\ porcupine = "none"
    /\ vision_pipeline = "none"
    /\ is_running = FALSE
    /\ on_wake_word = "none"
    /\ is_listening = FALSE
    /\ stack = <<>>
    /\ triggers = 0
    /\ invoked = 0
    /\ raised = 0
    /\ description = None
    /\ loop = NoLoop
    /\ vision = [is_initialized |-> FALSE, analysis_count |-> 0, successful_analyses |-> 0,
                 calls |-> 0, model_failed |-> FALSE, result |-> None]

Init ==
    /\ machine \in Machines
    /\ mode \in PipelineModes
    /\ options = [use_mock_hotword |-> TRUE, enable_vision |-> TRUE]
    /\ Fresh
    /\ cli = NoCli

Next ==
    \/ Initialize
    \/ \E text \in Utterances : ProcessVoiceInput(text)
    \/ \E text \in SttOutcomes : SttDone(text)
    \/ \E msg \in ExceptionMessages : SttRaise(msg)
    \/ SimSttDone
    \/ \E text \in LLMOutputs : GenerateDone(text)
    \/ \E msg \in ExceptionMessages : GenerateRaise(msg)
    \/ \E ok \in BOOLEAN : TtsDone(ok)
    \/ Cleanup
    \/ \E i \in DOMAIN timer_tasks : TimerCompletion(i)
    \/ Tick

Spec == Init /\ [][Next]_vars

(* ------------------------- conversation_loop --------------------------- *)

MaxLoopTurns == 3

\* simulated_inputs, pipeline.py lines 308-314
SimulatedInputs ==
    << DefaultGreeting,
       <<"What", "'", "s", SP, "the", SP, "weather", SP, "like", "?">>,
       <<"Tell", SP, "me", SP, "a", SP, "joke">>,
       <<"What", SP, "can", SP, "you", SP, "help", SP, "me", SP, "with", "?">>,
       <<"Thank", SP, "you", ",", SP, "that", SP, "was", SP, "helpful">> >>

\* lines 306-317: the text passed as simulate_text in turn turn_num
SimulateText(turn_num) ==
    IF mode = "simulation"
    THEN Some(SimulatedInputs[Min(turn_num, Len(SimulatedInputs))])
    ELSE None

\* lines 319-329: the loop, in state g, awaits process_voice_input, which may
\* return without suspending
LoopCalls(g, turn_num) ==
    /\ Call(SimulateText(turn_num))
    /\ GateBecomes(IF pc' = "idle" THEN LoopTurn(g, turn') ELSE g)

\* a caller awaits conversation_loop(max_turns): lines 282-319
ConversationLoop(max_turns) ==
    /\ loop.state = "none" /\ pc = "idle" /\ stack = <<>>
    /\ IF max_turns = 0
       THEN /\ GateBecomes([Gate EXCEPT !.loop = [NoLoop EXCEPT !.state = "returned"]])
            /\ UNCHANGED <<intentVars, coroVars, conversation_history>>
       ELSE LoopCalls([Gate EXCEPT !.loop = [state |-> "awaiting", max_turns |-> max_turns,
                                             turn_num |-> 1, conversation_turns |-> <<>>],
                                   !.stack = <<"conversation_loop">>], 1)
    /\ UNCHANGED <<now, machine, cli, engineVars, mode, is_initialized, gateCfg>>

\* the sleep of line 329 is over: the next turn, or the return of line 338
\* after the last one
LoopSleepDone ==
    /\ Top(stack) = "conversation_loop" /\ loop.state = "sleeping" /\ pc = "idle"
    /\ IF loop.turn_num = loop.max_turns
       THEN /\ GateBecomes([Gate EXCEPT !.loop.state = "returned",
                                        !.stack = SubSeq(stack, 1, Len(stack) - 1)])
            /\ UNCHANGED <<intentVars, coroVars, conversation_history>>
       ELSE LoopCalls([Gate EXCEPT !.loop.turn_num = @ + 1, !.loop.state = "awaiting"],
                      loop.turn_num + 1)
    /\ UNCHANGED <<now, machine, cli, engineVars, mode, is_initialized, gateCfg>>

InitLoop ==
    /\ machine \in Machines
    /\ mode \in PipelineModes
    /\ options = [use_mock_hotword |-> TRUE, enable_vision |-> TRUE]
    /\ Fresh
    /\ cli = NoCli

NextLoop ==
    \/ Initialize
    \/ \E max_turns \in 0..MaxLoopTurns : ConversationLoop(max_turns)
    \/ LoopSleepDone
    \/ \E text \in SttOutcomes : SttDone(text)
    \/ \E msg \in ExceptionMessages : SttRaise(msg)
    \/ SimSttDone
    \/ \E text \in LLMOutputs : GenerateDone(text)
    \/ \E msg \in ExceptionMessages : GenerateRaise(msg)
    \/ \E ok \in BOOLEAN : TtsDone(ok)
    \/ \E i \in DOMAIN timer_tasks : TimerCompletion(i)
    \/ Tick

SpecLoop == InitLoop /\ [][NextLoop]_vars

(* --------------------------- ParvisAssistant --------------------------- *)

\* _handle_conversation's test_inputs, lines 139-147
TestInputs ==
    << <<"Hello", SP, "Parvis", "!">>,
       <<"How", SP, "are", SP, "you", SP, "today", "?">>,
       <<"What", SP, "can", SP, "you", SP, "help", SP, "me", SP, "with", "?">>,
       <<"Tell", SP, "me", SP, "about", SP, "you", "rself">>,
       <<"What", SP, "do", SP, "you", SP, "see", "?">>,
       <<"Describe", SP, "what", "'", "s", SP, "in", SP, "front", SP, "of", SP, "you">>,
       <<"Look", SP, "around", SP, "and", SP, "tell", SP, "me", SP, "what", "'", "s", SP,
         "there">> >>

\* what describe_scene returns: a description, or its apology when the
\* analysis failed
VisionOutcomes ==
    { Some(<<"I can see a person and a laptop.">>),
      Some(<<"I'm sorry, I couldn't analyze the scene. ", "Failed to capture image">>) }

\* create_hotword_detector, hotword.py lines 265-268
HotwordKind ==
    IF options.use_mock_hotword \/ machine.porcupine = "unavailable" THEN "mock" ELSE "real"

\* the detector's initialize(): the mock always succeeds, the real one needs
\* porcupine, an access key and an audio stream
HotwordReady == HotwordKind = "mock" \/ machine.porcupine = "ok"

\* ParvisAssistant.start, lines 239-255: initialize, then listen
Start ==
    /\ detector = "none" /\ stack = <<>> /\ pc = "idle"
    /\ PipelineInitialize(mode \in {"hardware", "simulation"}, machine)
    /\ IF ~PipelineReady(mode \in {"hardware", "simulation"}, machine)
       THEN UNCHANGED <<detector, porcupine, vision_pipeline, is_running, on_wake_word,
                        gateDyn>>
       ELSE /\ detector' = HotwordKind
            /\ on_wake_word' = "coroutine"
            /\ porcupine' = IF HotwordKind = "real" /\ HotwordReady THEN "ready" ELSE "none"
            /\ IF ~HotwordReady
               THEN UNCHANGED <<vision_pipeline, is_running, gateDyn>>
               ELSE /\ vision_pipeline' = IF options.enable_vision /\ machine.vision
                                          THEN "ready" ELSE "none"
                    /\ is_running' = TRUE
                    /\ is_listening' = TRUE
                    /\ stack' = <<"start", "start_listening">>
                    /\ UNCHANGED <<triggers, invoked, raised, description, loop>>
    /\ UNCHANGED <<now, machine, cli, intentVars, coroVars, mode, conversation_history, options,
                    vision>>

\* the detector, listening for the assistant, detects the wake word and
\* awaits _on_parvis_detected, which runs up to its first suspension point:
\* hotword.py lines 146-164 and 227-235, parvis.py lines 105-160
Wake(test_input) ==
    /\ Top(stack) = "start_listening" /\ stack[1] = "start"
    /\ is_listening
    /\ invoked < MaxTriggers
    /\ IF mode # "hardware" /\ IsVisionRequest(Some(test_input))
       THEN /\ GateBecomes(HandleVisionRequest(Detected(Gate)))
            /\ UNCHANGED <<intentVars, coroVars, conversation_history>>
       ELSE /\ Call(IF mode = "hardware" THEN None ELSE Some(test_input))
            /\ GateBecomes(IF pc' = "idle" THEN AfterTurn(Detected(Gate), turn')
                                           ELSE Detected(Gate))
    /\ UNCHANGED <<now, machine, cli, engineVars, mode, is_initialized, gateCfg>>

\* describe_scene returns to _handle_vision_request, lines 214-237
VisionDone(outcome) ==
    /\ Top(stack) = "_handle_vision_request"
    /\ GateBecomes(ConversationDone([Gate EXCEPT !.description = outcome]))
    /\ UNCHANGED <<now, machine, cli, intentVars, engineVars, coroVars, pipeVars, gateCfg>>

\* the program is interrupted while the assistant listens or converses: the
\* awaiting coroutines are cancelled and start()'s finally clause runs
\* stop(), lines 261-279
Interrupt ==
    /\ stack # <<>> /\ stack[1] = "start"
    /\ is_running' = FALSE
    /\ is_listening' = FALSE
    /\ porcupine' = "none"
    /\ stack' = <<>>
    /\ stt_audio' = IF stt_audio = "none" THEN "none" ELSE "terminated"
    /\ pc' = "idle"
    /\ turn' = IF pc = "idle" THEN turn ELSE NewTurn
    /\ simulate_text' = None
    /\ total_start' = 0
    /\ stage_start' = 0
    /\ UNCHANGED <<now, machine, cli, intentVars, llm_backend, llm_initialized, calls, ncalls,
                    pipeVars, options, detector, vision_pipeline, on_wake_word, triggers,
                    invoked, raised, description, loop, vision>>

\* another task awaits assistant.stop() while the assistant runs, parvis.py
\* lines 264-279: the detector and the speech pipeline are cleaned up, the
\* listening task and a turn in progress are left to go on
Stop ==
    /\ stack # <<>> /\ stack[1] = "start"
    /\ is_running
    /\ is_running' = FALSE
    /\ is_listening' = FALSE
    /\ porcupine' = "none"
    /\ stt_audio' = IF stt_audio = "none" THEN "none" ELSE "terminated"
    /\ UNCHANGED <<now, machine, cli, intentVars, llm_backend, llm_initialized, coroVars,
                    pipeVars, options, detector, vision_pipeline, on_wake_word, stack,
                    triggers, invoked, raised, description, loop, vision>>

\* a listening loop of the assistant's detector finds is_listening false and
\* start_listening returns: hotword.py lines 146 and 227
ListenReturns ==
    /\ Top(stack) = "start_listening" /\ stack[1] = "start"
    /\ ~is_listening
    /\ GateBecomes(ListenReturned([Gate EXCEPT !.stack = SubSeq(stack, 1, Len(stack) - 1)]))
    /\ UNCHANGED <<now, machine, cli, intentVars, engineVars, coroVars, pipeVars, gateCfg>>

\* how the program is started: what is installed, and the constructor's
\* use_mock_hotword and enable_vision
Setup(m, porc, vis, use_mock, enable_vision) ==
    [machine |-> [m EXCEPT !.porcupine = porc, !.vision = vis],
     options |-> [use_mock_hotword |-> use_mock, enable_vision |-> enable_vision]]

Setups ==
    { Setup(Machine("ok", TRUE, TRUE, TRUE, TRUE), "ok", TRUE, TRUE, TRUE),
      Setup(Machine("ok", TRUE, TRUE, TRUE, TRUE), "ok", TRUE, FALSE, TRUE),
      Setup(Machine("ok", TRUE, TRUE, TRUE, TRUE), "unavailable", FALSE, FALSE, TRUE),
      Setup(Machine("ok", TRUE, TRUE, TRUE, TRUE), "ok", TRUE, TRUE, FALSE),
      Setup(Machine("ok", TRUE, TRUE, TRUE, TRUE), "nokey", TRUE, FALSE, TRUE),
      Setup(Machine("ok", TRUE, FALSE, TRUE, TRUE), "ok", TRUE, TRUE, TRUE) }

InitAssistant ==
    /\ \E s \in Setups : machine = s.machine /\ options = s.options
    /\ mode \in PipelineModes
    /\ Fresh
    /\ cli = NoCli

NextAssistant ==
    \/ Start
    \/ \E i \in (IF mode = "hardware" THEN {1} ELSE DOMAIN TestInputs) : Wake(TestInputs[i])
    \/ \E text \in SttOutcomes : SttDone(text)
    \/ \E msg \in ExceptionMessages : SttRaise(msg)
    \/ SimSttDone
    \/ \E text \in LLMOutputs : GenerateDone(text)
    \/ \E msg \in ExceptionMessages : GenerateRaise(msg)
    \/ \E ok \in BOOLEAN : TtsDone(ok)
    \/ \E outcome \in VisionOutcomes : VisionDone(outcome)
    \/ Interrupt
    \/ \E i \in DOMAIN timer_tasks : TimerCompletion(i)
    \/ Tick

SpecAssistant == InitAssistant /\ [][NextAssistant]_vars

\* the assistant with a task that may call stop() at any time
NextStop ==
    \/ NextAssistant
    \/ Stop
    \/ ListenReturns

SpecStop == InitAssistant /\ [][NextStop]_vars

\* a suspended process_voice_input is resumed by the event loop once what it
\* awaits has completed, and the recording, the transcription, the completion
\* and the synthesis all end (a subprocess with a timeout, an HTTP request
\* with a timeout, a sleep): the step is one of SttDone, SttRaise, SimSttDone,
\* GenerateDone, GenerateRaise and TtsDone, the steps that move pc on
TurnAdvances == pc # "idle" /\ pc' \in {"stt", "llm", "tts", "idle"} \ {pc}

\* describe_scene, awaited by _handle_vision_request, returns as well
SpecAssistantFair ==
    /\ SpecAssistant
    /\ WF_pc(TurnAdvances)
    /\ WF_vars(\E outcome \in VisionOutcomes : VisionDone(outcome))

(* ------------------ a detector with a callback of its own -------------- *)

\* what a caller may pass as on_wake_word: nothing, an async def or a def
Callbacks == {"none", "coroutine", "plain"}

\* create_hotword_detector(on_wake_word, use_mock) and the detector's
\* initialize(), as test_hotword.py calls them
CreateDetector(callback) ==
    /\ detector = "none"
    /\ detector' = HotwordKind
    /\ on_wake_word' = callback
    /\ porcupine' = IF HotwordKind = "real" /\ HotwordReady THEN "ready" ELSE "none"
    /\ UNCHANGED <<now, machine, cli, intentVars, engineVars, coroVars, pipeVars, options,
                    vision_pipeline, is_running, gateDyn, vision>>

\* asyncio.create_task(detector.start_listening())
Listen ==
    /\ detector # "none" /\ stack = <<>>
    /\ GateBecomes(StartListening(Gate))
    /\ UNCHANGED <<now, machine, cli, intentVars, engineVars, coroVars, pipeVars, gateCfg>>

\* the loop after on_wake_word returned: the mock detector tests
\* is_listening at once (line 227), the real one sleeps first (line 169)
AfterCallback(g) ==
    IF detector = "mock" /\ ~g.is_listening
    THEN [g EXCEPT !.stack = SubSeq(g.stack, 1, Len(g.stack) - 2)]
    ELSE [g EXCEPT !.stack = SubSeq(g.stack, 1, Len(g.stack) - 1)]

\* the loop after on_wake_word raised: the real detector catches the
\* exception inside the loop (lines 171-173), the mock detector outside it
\* (lines 239-240), which ends start_listening
AfterCallbackError(g) ==
    IF detector = "mock"
    THEN [g EXCEPT !.raised = @ + 1, !.stack = SubSeq(g.stack, 1, Len(g.stack) - 2)]
    ELSE [g EXCEPT !.raised = @ + 1, !.stack = SubSeq(g.stack, 1, Len(g.stack) - 1)]

\* the wake word is detected: keyword_index >= 0 at line 158, the sleep of
\* line 228 over with is_listening still true at line 230
Detect(g) == [g EXCEPT !.triggers = @ + 1]

\* on_wake_word is entered
Called(g) == [g EXCEPT !.invoked = @ + 1, !.stack = Append(g.stack, "on_wake_word")]

\* a loop that awaits a coroutine function and has no branch for a plain one
InvokeCoroutineOnly(g, raises) ==
    IF on_wake_word = "coroutine" THEN Called(g)
    ELSE AfterCallback([g EXCEPT !.stack = Append(g.stack, "on_wake_word")])

\* lines 162-166 and 233-237: a coroutine function is awaited, which
\* suspends the loop until it is done; a plain function is called and has
\* returned or raised when the call is over; without a callback the loop goes on
Invoke(g, raises) ==
    CASE on_wake_word = "coroutine" -> Called(g)
      [] on_wake_word = "plain" ->
            IF raises THEN AfterCallbackError(Called(g)) ELSE AfterCallback(Called(g))
      [] OTHER -> AfterCallback([g EXCEPT !.stack = Append(g.stack, "on_wake_word")])

\* the loop, listening, detects the wake word and invokes on_wake_word:
\* hotword.py lines 146-166 and 227-237
Trigger(raises) ==
    /\ Top(stack) = "start_listening" /\ stack[1] = "start_listening"
    /\ is_listening
    /\ triggers < MaxTriggers
    /\ raises => on_wake_word = "plain"
    /\ GateBecomes(Invoke(Detect(Gate), raises))
    /\ UNCHANGED <<now, machine, cli, intentVars, engineVars, coroVars, pipeVars, gateCfg>>

\* on_wake_word returns
CallbackReturns ==
    /\ Top(stack) = "on_wake_word"
    /\ GateBecomes(AfterCallback(Gate))
    /\ UNCHANGED <<now, machine, cli, intentVars, engineVars, coroVars, pipeVars, gateCfg>>

\* on_wake_word raises
CallbackRaises ==
    /\ Top(stack) = "on_wake_word"
    /\ GateBecomes(AfterCallbackError(Gate))
    /\ UNCHANGED <<now, machine, cli, intentVars, engineVars, coroVars, pipeVars, gateCfg>>

\* the loop finds is_listening false and start_listening returns: lines 146
\* and 227
LoopEnds ==
    /\ Top(stack) = "start_listening" /\ stack[1] = "start_listening"
    /\ ~is_listening
    /\ stack' = <<>>
    /\ UNCHANGED <<now, machine, cli, intentVars, engineVars, coroVars, pipeVars, gateCfg,
                    is_listening, triggers, invoked, raised, description, loop>>

\* another task calls detector.stop_listening()
StopListening ==
    /\ detector # "none" /\ is_listening
    /\ is_listening' = FALSE
    /\ UNCHANGED <<now, machine, cli, intentVars, engineVars, coroVars, pipeVars, gateCfg,
                    stack, triggers, invoked, raised, description, loop>>

\* another task calls detector.cleanup(), lines 185-204 and 247-250
DetectorCleanup ==
    /\ detector # "none"
    /\ is_listening' = FALSE
    /\ porcupine' = "none"
    /\ UNCHANGED <<now, machine, cli, intentVars, engineVars, coroVars, pipeVars, options,
                    detector, vision_pipeline, is_running, on_wake_word, stack, triggers,
                    invoked, raised, description, loop, vision>>

InitDetector ==
    /\ \E s \in Setups : machine = s.machine /\ options = s.options
    /\ mode = "text_only"
    /\ Fresh
    /\ cli = NoCli

NextDetector ==
    \/ \E callback \in Callbacks : CreateDetector(callback)
    \/ Listen
    \/ \E raises \in BOOLEAN : Trigger(raises)
    \/ CallbackReturns
    \/ CallbackRaises
    \/ LoopEnds
    \/ StopListening
    \/ DetectorCleanup

SpecDetector == InitDetector /\ [][NextDetector]_vars

(* ------------------- the intent manager called directly ---------------- *)

\* the texts classify_and_handle is called with
IntentTexts ==
    Utterances \cup
    { Some(<<"Set", SP, "a", SP, "time", "r", SP, "for", SP, "1", SP, "second", SP, "on",
             SP, "the", SP, "camera">>),
      Some(<<"Set", SP, "a", SP, "time", "r", SP, "for", SP, "0", SP, "second">>),
      Some(<<"Look", SP, "at", SP, "the", SP, "weather">>),
      Some(<<SP, "Camera", SP>>),
      Some(<<"What", "'", "s", SP, "the", SP, "weather">>),
      Some(<<"translat", "e", SP, "hello", SP, "to", SP, "spanish">>),
      Some(<<"alarm">>),
      Some(<<"Set", SP, "a", SP, "time", "r", SP, "for", SP, "5", SP, "minute", "s">>),
      Some(<<"Start", SP, "a", SP, "3", "0", SP, "second", SP, "time", "r">>),
      Some(<<"Remind", SP, "me", SP, "in", SP, "2", SP, "hour", "s">>),
      Some(<<"time", "r", SP, "alarm", SP, "5">>),
      Some(<<"alarm", SP, "in", SP, "9", SP, "second", "s">>),
      Some(<<"alarm", SP, "2", SP, "second", "s", SP, "past", SP, "the", SP, "hour">>),
      Some(<<"How", SP, "do", SP, "you", SP, "say", SP, "hello", SP, "in", SP, "Spanish",
             "?">>),
      Some(<<"How", SP, "do", SP, "you", SP, "say", SP, "unk", "now", "n", SP, "in", SP,
             "Spanish", "?">>),
      Some(<<"alarm", SP, "hour", SP, "now">>),
      Some(<<"cold", SP, "rain", SP, "today", SP, "now">>),
      Some(<<"alarm", SP, "clock">>) }

\* classify_and_handle returned r
ClassifyReturns(user_text, r) ==
    /\ intent_stats' = r.stats
    /\ active_timers' = r.timers
    /\ timer_tasks' = r.tasks
    /\ last_intent' = IntentCall(user_text, r)

\* a caller other than the pipeline calls intent_manager.classify_and_handle
Classify(user_text) ==
    /\ ncalls < MaxTurns
    /\ ncalls' = ncalls + 1
    /\ ClassifyReturns(user_text, ClassifyAndHandle(user_text, now, intent_stats,
                                                    active_timers, timer_tasks))
    /\ UNCHANGED <<now, machine, cli, engineVars, pc, turn, simulate_text, total_start,
                    stage_start, calls, pipeVars, gateVars>>

InitIntent ==
    /\ machine \in { Machine("ok", TRUE, TRUE, TRUE, TRUE),
                     [Machine("ok", TRUE, TRUE, TRUE, TRUE)
                        EXCEPT !.handler = Some("handler failed")] }
    /\ mode = "text_only"
    /\ options = [use_mock_hotword |-> TRUE, enable_vision |-> TRUE]
    /\ Fresh
    /\ cli = NoCli

NextIntent ==
    \/ \E text \in IntentTexts : Classify(text)
    \/ \E i \in DOMAIN timer_tasks : TimerCompletion(i)
    \/ Tick

SpecIntent == InitIntent /\ [][NextIntent]_vars

(* ---------------------------- VisionPipeline --------------------------- *)

MaxDetections == 3
MaxAnalyses == 2

\* DetectionResult(class_name, confidence), the confidence in percent
DetectionResults ==
    { [class_name |-> "person", confidence |-> 85],
      [class_name |-> "chair", confidence |-> 78],
      [class_name |-> "cup", confidence |-> 89] }

\* what detect_objects can return: the lists of up to MaxDetections of these
\* detections, and one list of four classes
DetectionLists ==
    UNION {[1..n -> DetectionResults] : n \in 0..MaxDetections}
        \cup { << [class_name |-> "person", confidence |-> 85],
                  [class_name |-> "chair", confidence |-> 78],
                  [class_name |-> "cup", confidence |-> 89],
                  [class_name |-> "book", confidence |-> 76] >> }

\* format_detections_for_speech lines 325-332: object_counts, a dict, keeps
\* the class names in the order of their first detection
RECURSIVE ObjectCounts(_, _)
ObjectCounts(detections, object_counts) ==
    IF detections = <<>> THEN object_counts
    ELSE ObjectCounts(Tail(detections),
             IF \E i \in DOMAIN object_counts :
                    object_counts[i].name = Head(detections).class_name
             THEN [i \in DOMAIN object_counts |->
                     IF object_counts[i].name = Head(detections).class_name
                     THEN [object_counts[i] EXCEPT !.count = @ + 1]
                     ELSE object_counts[i]]
             ELSE Append(object_counts,
                         [name |-> Head(detections).class_name, count |-> 1]))

\* lines 343-348: f"a {name}" or f"{count} {name}s"
Item(e) ==
    IF e.count = 1 THEN <<"a", SP, e.name>> ELSE IntStr(e.count) \o <<SP, e.name, "s">>

\* ', '.join of the items of object_counts[first..last]
RECURSIVE JoinItems(_, _, _)
JoinItems(object_counts, first, last) ==
    IF first > last THEN <<>>
    ELSE IF first = last THEN Item(object_counts[first])
    ELSE Item(object_counts[first]) \o <<",", SP>>
           \o JoinItems(object_counts, first + 1, last)

\* FormatCounts without the comma before "and"
FormatCountsPlain(object_counts) ==
    IF Len(object_counts) = 1
    THEN <<"I can see ">> \o Item(object_counts[1]) \o <<".">>
    ELSE <<"I can see ">> \o JoinItems(object_counts, 1, Len(object_counts) - 1)
           \o <<SP, "and", SP>> \o Item(object_counts[Len(object_counts)]) \o <<".">>

\* lines 334-352, given object_counts
FormatCounts(object_counts) ==
    IF Len(object_counts) = 1
    THEN <<"I can see ">> \o Item(object_counts[1]) \o <<".">>
    ELSE IF Len(object_counts) = 2
    THEN <<"I can see ">> \o Item(object_counts[1]) \o <<SP, "and", SP>>
           \o Item(object_counts[2]) \o <<".">>
    ELSE <<"I can see ">> \o JoinItems(object_counts, 1, Len(object_counts) - 1)
           \o <<",", SP, "and", SP>> \o Item(object_counts[Len(object_counts)]) \o <<".">>

\* format_detections_for_speech
FormatDetectionsForSpeech(detections) ==
    IF detections = <<>>
    THEN <<"I don't see any recognizable objects in the image.">>
    ELSE IF Len(detections) = 1
    THEN <<"I can see ", "a", SP, detections[1].class_name, SP, "with", SP>>
           \o IntStr(detections[1].confidence) \o <<"%", SP, "confidence.">>
    ELSE FormatCounts(ObjectCounts(detections, <<>>))

VisionResult(success, image_path, detections, desc, error_message) ==
    [success |-> success, image_path |-> image_path, detections |-> detections,
     description |-> desc, error_message |-> error_message]

\* camera.capture_image returns the path of the image, or None when the
\* capture failed
CaptureOutcomes == {Some("parvis_capture.jpg"), None}

\* detector.detect_objects: the model's detections, or the empty list that
\* YOLOv8Detector.detect_objects returns when the inference raised
\* (detector.py lines 170-172)
DetectOutcomes ==
    {[failed |-> FALSE, detections |-> d] : d \in DetectionLists}
        \cup {[failed |-> TRUE, detections |-> <<>>]}

\* analyze_scene on pipeline v: capture is what capture_image returns,
\* detected what detect_objects does, fault the message of an exception
\* raised after the capture (by detect_objects or by the formatting), if any
AnalyzeScene(v, description_prompt, capture, detected, fault) ==
    IF ~v.is_initialized
    THEN [v EXCEPT !.calls = @ + 1, !.model_failed = FALSE,
                   !.result = Some(VisionResult(FALSE, None, <<>>, <<>>,
                                                Some(<<"Vision pipeline not initialized">>)))]
    ELSE IF IsNone(capture)
    THEN [v EXCEPT !.calls = @ + 1, !.model_failed = FALSE,
                   !.result = Some(VisionResult(FALSE, None, <<>>, <<>>,
                                                Some(<<"Failed to capture image">>)))]
    ELSE IF ~IsNone(fault)
    THEN [v EXCEPT !.calls = @ + 1, !.model_failed = FALSE,
                   !.analysis_count = @ + 1,
                   !.result = Some(VisionResult(FALSE, capture, <<>>, <<>>,
                                                Some(<<Val(fault)>>)))]
    ELSE [v EXCEPT !.calls = @ + 1, !.model_failed = detected.failed,
                   !.analysis_count = @ + 1,
                   !.successful_analyses = @ + 1,
                   !.result = Some(VisionResult(TRUE, capture, detected.detections,
                                     (IF IsNone(description_prompt) \/ Val(description_prompt) = <<>>
                                      THEN <<>> ELSE Val(description_prompt) \o <<SP>>)
                                         \o FormatDetectionsForSpeech(detected.detections),
                                     None))]

\* describe_scene lines 246-252, given analyze_scene's result
DescribeText(result) ==
    IF result.success THEN result.description
    ELSE <<"I'm sorry, I couldn't analyze the scene. ">>
           \o (IF IsNone(result.error_message) \/ Val(result.error_message) = <<"">>
               THEN <<"Unknown error">> ELSE Val(result.error_message))

\* VisionPipeline.initialize, lines 101-142
VisionInitialize(camera_ready, detector_ready) ==
    /\ vision' = [vision EXCEPT !.is_initialized = @ \/ (camera_ready /\ detector_ready)]
    /\ UNCHANGED <<now, machine, cli, intentVars, engineVars, coroVars, pipeVars, options,
                    detector, porcupine, vision_pipeline, is_running, on_wake_word,
                    gateDyn>>

\* await vision_pipeline.describe_scene(custom_prompt)
DescribeScene(custom_prompt, capture, detected, fault) ==
    /\ vision.calls < MaxAnalyses
    /\ vision' = AnalyzeScene(vision, custom_prompt, capture, detected, fault)
    /\ description' = Some(DescribeText(Val(vision'.result)))
    /\ UNCHANGED <<now, machine, cli, intentVars, engineVars, coroVars, pipeVars, options,
                    detector, porcupine, vision_pipeline, is_running, on_wake_word,
                    is_listening, stack, triggers, invoked, raised, loop>>

\* VisionPipeline.cleanup, lines 311-327
VisionCleanup ==
    /\ vision' = [vision EXCEPT !.is_initialized = FALSE]
    /\ UNCHANGED <<now, machine, cli, intentVars, engineVars, coroVars, pipeVars, options,
                    detector, porcupine, vision_pipeline, is_running, on_wake_word,
                    gateDyn>>

InitVision ==
    /\ machine = Machine("ok", TRUE, TRUE, TRUE, TRUE)
    /\ mode = "simulation"
    /\ options = [use_mock_hotword |-> TRUE, enable_vision |-> TRUE]
    /\ Fresh
    /\ cli = NoCli

NextVision ==
    \/ \E camera_ready, detector_ready \in BOOLEAN :
           VisionInitialize(camera_ready, detector_ready)
    \/ \E custom_prompt \in {None, Some(<<"Looking", SP, "around:">>)},
          capture \in CaptureOutcomes, detected \in DetectOutcomes,
          fault \in {None} \cup {Some(msg) : msg \in ExceptionMessages} :
           DescribeScene(custom_prompt, capture, detected, fault)
    \/ VisionCleanup

SpecVision == InitVision /\ [][NextVision]_vars

(* ----------------------- command-line entry points --------------------- *)

\* values given as sys.argv[1], the mode
ModeArguments ==
    { <<"hardware">>, <<"simulation">>, <<"text">>, <<"text_only">>, <<"Hardware">>,
      <<"voice">> }

\* values given as sys.argv[2], which only parvis.py reads
MockArguments == { <<"mock">>, <<"Mock">>, <<"false">> }

\* sys.argv[1:]
ArgumentLists ==
    {<<>>} \cup { <<a>> : a \in ModeArguments }
           \cup { <<a, b>> : a \in ModeArguments, b \in MockArguments }

\* main.py lines 160-173: the PipelineMode chosen, or None for an unknown
\* argument
MainMode(argv) ==
    IF Len(argv) = 0 THEN Some("simulation")
    ELSE CASE Lower(argv[1]) = <<"hardware">> -> Some("hardware")
           [] Lower(argv[1]) = <<"text">> -> Some("text_only")
           [] Lower(argv[1]) = <<"simulation">> -> Some("simulation")
           [] OTHER -> None

\* python -m assistant.main: main(), lines 155-176, up to PiJarvis(mode=mode)
Main ==
    /\ cli.entry = "main" /\ cli.state = "launched"
    /\ IF IsNone(MainMode(cli.argv))
       THEN /\ cli' = [cli EXCEPT !.state = "usage"]
            /\ mode' = mode
       ELSE /\ cli' = [cli EXCEPT !.state = "constructed"]
            /\ mode' = Val(MainMode(cli.argv))
    /\ UNCHANGED <<now, machine, intentVars, engineVars, coroVars, is_initialized,
                    conversation_history, gateVars>>

\* run_parvis_assistant, parvis.py lines 311-317: the mode string to the enum
ParvisMode(mode_arg) ==
    CASE Lower(mode_arg) = <<"hardware">> -> "hardware"
      [] Lower(mode_arg) = <<"text_only">> -> "text_only"
      [] OTHER -> "simulation"

\* parvis.py lines 337-344: the mock flag, true unless a second argument
\* says otherwise
ParvisMockHotword(argv) ==
    IF Len(argv) > 1 THEN Lower(argv[2]) \in {<<"true">>, <<"mock">>, <<"1">>} ELSE TRUE

\* python -m assistant.parvis: lines 333-358 and run_parvis_assistant up to
\* the construction of ParvisAssistant, lines 311-323
RunParvis ==
    /\ cli.entry = "parvis" /\ cli.state = "launched"
    /\ cli' = [cli EXCEPT !.state = "constructed"]
    /\ mode' = ParvisMode(IF Len(cli.argv) > 0 THEN cli.argv[1] ELSE <<"simulation">>)
    /\ options' = [use_mock_hotword |-> ParvisMockHotword(cli.argv), enable_vision |-> TRUE]
    /\ UNCHANGED <<now, machine, intentVars, engineVars, coroVars, is_initialized,
                    conversation_history, detector, porcupine, vision_pipeline, is_running,
                    on_wake_word, vision, gateDyn>>

\* the machines the entry points are started on
CliMachines == { s.machine : s \in Setups }

InitCli ==
    /\ machine \in CliMachines
    /\ mode = "simulation"
    /\ options = [use_mock_hotword |-> TRUE, enable_vision |-> TRUE]
    /\ Fresh
    /\ cli \in [entry : {"main", "parvis"}, argv : ArgumentLists, state : {"launched"}]

\* after the construction main() awaits PiJarvis.start(), main.py lines
\* 43-49, and run_parvis_assistant awaits ParvisAssistant.start()
NextCli ==
    \/ Main
    \/ RunParvis
    \/ cli.state = "constructed" /\ cli.entry = "main" /\ Initialize
    \/ cli.state = "constructed" /\ cli.entry = "parvis" /\ Start

SpecCli == InitCli /\ [][NextCli]_vars

(* ----------------------------- properties ----------------------------- *)

Range(s) == {s[i] : i \in DOMAIN s}

\* the last process_voice_input call has returned its turn
Returned == pc = "idle" /\ ncalls > 0

\* a step in which a process_voice_input call returns
CallReturns == pc' = "idle" /\ (pc # "idle" \/ ncalls' # ncalls)

\* the classifier's result r signals the delegation `key`
Delegates(r, key) == ~IsNone(r.data) /\ DataGet(Val(r.data), key)

\* C2: a failure at any stage ends the turn there.  After a null, empty or
\* whitespace utterance the classifier, the language model and the
\* synthesizer are not called; after a null or blank response the
\* synthesizer is not called; the turn returned has success = false and an
\* error_message, and the fields and timings of the stages not reached keep
\* their initial values.
C2_FailureEndsTurn ==
    /\ pc \in {"llm", "tts"} => ~IsBlank(turn.user_text)
    /\ pc = "tts" => ~IsBlank(turn.assistant_text)
    /\ (Returned /\ IsBlank(turn.user_text)) =>
          /\ Range(calls) \cap {"classify", "generate", "tts"} = {}
          /\ ~turn.success /\ ~IsNone(turn.error_message)
          /\ IsNone(turn.assistant_text) /\ turn.llm_time = 0 /\ turn.tts_time = 0
    /\ (Returned /\ ~IsBlank(turn.user_text) /\ IsBlank(turn.assistant_text)) =>
          /\ "tts" \notin Range(calls)
          /\ ~turn.success /\ ~IsNone(turn.error_message) /\ turn.tts_time = 0

\* a whitespace utterance ended the turn at acquisition, after time had passed
C2_Witness ==
    /\ Returned
    /\ turn.user_text = Some(<<SP>>)
    /\ turn.error_message = Some("No speech detected or transcription failed")
    /\ turn.total_time > 0

\* C3: when the classifier's result signals neither delegate_to_vision nor
\* delegate_to_llm, its response_text is taken directly as assistant_text and
\* the language model is not called; this includes results with
\* success = false, such as the clarifying response for an unparsable timer
\* duration.
C3_HandledLocally ==
    (/\ Returned /\ ~IsNone(last_intent)
     /\ ~Delegates(Val(last_intent).result, "delegate_to_vision")
     /\ ~Delegates(Val(last_intent).result, "delegate_to_llm")) =>
        /\ turn.assistant_text = Some(Val(last_intent).result.response_text)
        /\ "generate" \notin Range(calls)

\* C4: when the classifier signals delegate_to_vision, the turn invokes
\* describe_scene and the description it returns becomes assistant_text.
C4_VisionDescribed ==
    (/\ Returned /\ ~IsNone(last_intent)
     /\ Delegates(Val(last_intent).result, "delegate_to_vision")
     /\ ~IsNone(turn.assistant_text)) =>
        /\ ~IsNone(description)
        /\ turn.assistant_text = description

\* C5: a turn that fails at synthesis has success = false, a non-null
\* assistant_text and a non-null error_message, and is not appended to the
\* conversation history.
C5_SynthesisFailure ==
    [][(pc = "tts" /\ pc' = "idle" /\ ~turn'.success) =>
          /\ ~IsNone(turn'.assistant_text)
          /\ ~IsNone(turn'.error_message)
          /\ conversation_history' = conversation_history]_vars

\* a turn has failed at synthesis after an earlier one was recorded
C5_Witness ==
    /\ Returned
    /\ turn.error_message = Some("Text-to-speech failed")
    /\ Len(conversation_history) = 1

\* C7: the conversation history changes only by appending one turn at its
\* end, exactly when a process_voice_input call completes with
\* success = true; failed turns never appear in it, and no operation,
\* cleanup included, removes or reorders its entries.
C7_HistoryAppendOnly ==
    [][/\ (conversation_history' # conversation_history) <=> (CallReturns /\ turn'.success)
       /\ (conversation_history' # conversation_history) =>
              conversation_history' = Append(conversation_history, turn')
       /\ \A i \in DOMAIN conversation_history' : conversation_history'[i].success]_vars

\* a failed turn has been returned while the history holds an earlier turn,
\* and the pipeline has been cleaned up
C7_Witness ==
    /\ Returned /\ ~turn.success
    /\ Len(conversation_history) = 1
    /\ stt_audio = "terminated"

\* C8: every turn returned with success = true has a non-null, non-blank
\* assistant_text and a null error_message; every turn returned with
\* success = false has a non-null error_message.
C8_TurnWellFormed ==
    Returned =>
        /\ turn.success => (~IsBlank(turn.assistant_text) /\ IsNone(turn.error_message))
        /\ ~turn.success => ~IsNone(turn.error_message)

\* a successful turn answered by the language model has been returned
C8_Witness ==
    /\ Returned /\ turn.success
    /\ "generate" \in Range(calls)

\* the text contains one of the vision phrases and is not blank
VisionText(t) ==
    /\ ~IsBlank(t)
    /\ \E i \in DOMAIN VisionKeywords : Contains(Lower(Val(t)), VisionKeywords[i])

\* C6: every non-blank text that contains a vision phrase is classified as
\* kind Vision with delegate_to_vision = true and confidence 0.9, whatever
\* the handlers would score; no handler is invoked and no counter or timer
\* changes.
C6_VisionFirst ==
    [][(ncalls' # ncalls /\ VisionText(Val(last_intent').user_text)) =>
          /\ Val(last_intent').result.intent_type = "vision"
          /\ Val(last_intent').result.confidence = 9
          /\ Delegates(Val(last_intent').result, "delegate_to_vision")
          /\ IsNone(Val(last_intent').handler)
          /\ UNCHANGED <<intent_stats, active_timers, timer_tasks>>]_vars

\* after a timer was set, a text that holds both a timer request and a
\* vision phrase has been classified as a vision request
C6_Witness ==
    /\ ~IsNone(last_intent)
    /\ ~IsNone(Val(last_intent).user_text)
    /\ Contains(Lower(Val(Val(last_intent).user_text)), <<"time", "r">>)
    /\ Val(last_intent).result.intent_type = "vision"
    /\ intent_stats["timer"].count = 1

\* a turn started by the wake-word callback is executing
TurnExecuting(st) == Top(st) \in {"_handle_conversation", "_handle_vision_request"}

\* C1: in a running assistant the wake-word callback is never invoked while
\* a previous invocation has not returned: at most one callback is active,
\* and the detector polls again only after the callback has returned.
C1_CallbackNotReentered == Active(stack) <= 1

\* C10: while a turn started by the callback executes, the gate is paused:
\* is_listening is false and no trigger is detected or delivered, so two
\* turns never execute at the same time.
C10_GatePausedDuringTurn ==
    [][/\ (TurnExecuting(stack') \/ pc' # "idle") => ~is_listening'
       /\ (TurnExecuting(stack) \/ pc # "idle") => invoked' = invoked
       /\ Cardinality({i \in DOMAIN stack' : stack'[i] = "_handle_conversation"}) <= 1]_vars

\* the turn of a second wake word is waiting for the language model
C10_Witness ==
    /\ pc = "llm"
    /\ Top(stack) = "_handle_conversation"
    /\ invoked = 2
    /\ ~is_listening

\* C9: for both detectors, the real one and the mock, if the callback
\* raises, the listening loop keeps running, and a later trigger still
\* invokes the callback.
C9_LoopSurvivesCallbackError ==
    [][raised' > raised => Top(stack') = "start_listening"]_vars

\* C11: process_voice_input never raises.  An exception thrown by the
\* transcription, the classifier, the language model or the synthesizer ends
\* the call with a returned turn that has success = false and error_message
\* set, and leaves the conversation history unchanged.
C11_NeverRaises ==
    [][(calls' # calls /\ Top(calls') = "raise") =>
          /\ pc' = "idle"
          /\ ~turn'.success
          /\ ~IsNone(turn'.error_message)
          /\ conversation_history' = conversation_history]_vars

\* the language model raised in the turn after a successful one
C11_Witness ==
    /\ Returned
    /\ calls = <<"classify", "generate", "raise">>
    /\ Len(conversation_history) = 1
    /\ turn.error_message = Some("[Errno 2] No such file or directory")

\* C12: a process_voice_input call on a pipeline that is not initialized
\* returns a turn with success = false and the "not initialized" error, runs
\* no stage and leaves the history alone; and is_initialized becomes true
\* only when every component the mode requires has initialized.
C12_NotInitialized ==
    [][/\ (ncalls' # ncalls /\ ~is_initialized) =>
             /\ pc' = "idle"
             /\ turn' = [NewTurn EXCEPT !.error_message = Some("Pipeline not initialized")]
             /\ calls' = <<>>
             /\ UNCHANGED <<conversation_history, intent_stats, active_timers, timer_tasks>>
       /\ (is_initialized' /\ ~is_initialized) =>
             /\ llm_initialized' /\ llm_backend' # "none"
             /\ mode \in {"hardware", "simulation"} =>
                    (machine.stt = "ok" /\ stt_audio' = "open")]_vars

\* the second call is refused after an initialization that found the ollama
\* command but not its service
C12_Witness ==
    /\ Returned /\ ncalls = 2
    /\ turn.error_message = Some("Pipeline not initialized")
    /\ llm_backend = "ollama" /\ ~llm_initialized
    /\ ~is_initialized

\* the scores the registered handlers give a text, in tenths
Scores(text) == {IntentMatches(Intents[i], text) : i \in DOMAIN Intents}

\* C13: with no vision phrase in the text, classify_and_handle invokes a
\* handler if and only if the best score is strictly greater than 0.3, and
\* then one with the best score; otherwise no handler is invoked and the
\* result is GeneralChat with delegate_to_llm = true, confidence 0.5 and
\* success = true.
C13_Threshold ==
    [][(/\ ncalls' # ncalls
        /\ ~IsBlank(Val(last_intent').user_text)
        /\ ~VisionText(Val(last_intent').user_text)) =>
          /\ ~IsNone(Val(last_intent').handler) <=>
                 (\E s \in Scores(Val(Val(last_intent').user_text)) : s > 3)
          /\ ~IsNone(Val(last_intent').handler) =>
                 \A s \in Scores(Val(Val(last_intent').user_text)) :
                    s <= IntentMatches(Val(Val(last_intent').handler),
                                       Val(Val(last_intent').user_text))
          /\ IsNone(Val(last_intent').handler) =>
                 /\ Val(last_intent').result.intent_type = "general_chat"
                 /\ Val(last_intent').result.confidence = 5
                 /\ Val(last_intent').result.success
                 /\ Delegates(Val(last_intent').result, "delegate_to_llm")
                 /\ UNCHANGED <<intent_stats, active_timers, timer_tasks>>]_vars

\* a text with exactly one keyword hit and no pattern match, score 0.3, went
\* to the generative fallback
C13_Witness ==
    /\ ~IsNone(last_intent)
    /\ Val(last_intent).user_text = Some(<<"alarm">>)
    /\ IntentMatches("timer", <<"alarm">>) = 3
    /\ Val(last_intent).result.intent_type = "general_chat"
    /\ IsNone(Val(last_intent).handler)

\* C14: a classify_and_handle call that invokes a handler increases that
\* kind's request counter by one, and its success counter by one exactly if
\* the result has success = true; the counters of the other kinds do not
\* change, and a call that invokes no handler changes no counter.  Hence
\* successes <= requests for every kind.
C14_Counters ==
    [][/\ ncalls' # ncalls =>
             \A k \in DOMAIN intent_stats :
                 IF Val(last_intent').handler = Some(k)
                 THEN /\ intent_stats'[k].count = intent_stats[k].count + 1
                      /\ intent_stats'[k].success =
                             intent_stats[k].success
                               + (IF Val(last_intent').result.success THEN 1 ELSE 0)
                 ELSE intent_stats'[k] = intent_stats[k]
       /\ ncalls' = ncalls => intent_stats' = intent_stats
       /\ \A k \in DOMAIN intent_stats' :
             intent_stats'[k].success <= intent_stats'[k].count]_vars

\* the timer handler was invoked twice and succeeded once
C14_Witness ==
    /\ intent_stats["timer"] = [count |-> 2, success |-> 1]
    /\ ~Val(last_intent).result.success

\* C15: if the matched handler's handle raises, classify_and_handle returns
\* a result of the same kind with success = false, the apology as
\* response_text and the exception's message as error_message; the request
\* counter of the kind is incremented and its success counter is not.
C15_HandlerException ==
    [][(/\ ncalls' # ncalls
        /\ ~IsNone(machine.handler)
        /\ ~IsNone(Val(last_intent').handler)) =>
          /\ Val(last_intent').result.intent_type = Val(Val(last_intent').handler)
          /\ ~Val(last_intent').result.success
          /\ Val(last_intent').result.response_text =
                 <<"Sorry, I had trouble processing your request.">>
          /\ Val(last_intent').result.error_message = machine.handler
          /\ intent_stats'[Val(Val(last_intent').handler)].count =
                 intent_stats[Val(Val(last_intent').handler)].count + 1
          /\ intent_stats'[Val(Val(last_intent').handler)].success =
                 intent_stats[Val(Val(last_intent').handler)].success
          /\ UNCHANGED <<active_timers, timer_tasks>>]_vars

\* the weather handler raised and the call returned the apology
C15_Witness ==
    /\ ~IsNone(last_intent)
    /\ Val(last_intent).handler = Some("weather")
    /\ Val(last_intent).result.error_message = Some("handler failed")
    /\ intent_stats["weather"] = [count |-> 1, success |-> 0]

\* C16: every timer the Timer handler creates has a duration that is a
\* positive whole number of seconds: every entry of the timer table, and
\* every duration returned in a successful timer result.
C16_PositiveDuration ==
    /\ \A id \in DOMAIN active_timers :
          active_timers[id].duration \in Nat \ {0}
    /\ (/\ ~IsNone(last_intent)
        /\ Val(last_intent).handler = Some("timer")
        /\ Val(last_intent).result.success) =>
           Val(Val(last_intent).result.data).duration \in Nat \ {0}

\* C17: every successful timer request creates its own entry in the timer
\* table, and the entry stays until that timer's duration has elapsed, when
\* the timer's completion task removes it, also for requests made within
\* the same clock second: every timer whose completion is pending has an
\* entry of its own with its duration, and no entry is removed before its
\* end time.
C17_OwnEntry ==
    [][/\ \A i \in DOMAIN timer_tasks' :
             /\ timer_tasks'[i].timer_id \in DOMAIN active_timers'
             /\ active_timers'[timer_tasks'[i].timer_id].duration = timer_tasks'[i].duration
             /\ \A j \in DOMAIN timer_tasks' :
                    j # i => timer_tasks'[j].timer_id # timer_tasks'[i].timer_id
       /\ \A id \in DOMAIN active_timers \ DOMAIN active_timers' :
             now >= active_timers[id].end_time]_vars

\* C18: the Timer handler returns its confirmation without waiting for the
\* timer: in the step that sets a timer the successful result is returned
\* while the timer's completion is still pending and due only after the
\* duration.  A completion that fires, also while a turn is in progress,
\* changes only the timer table: the turn and its position, the history and
\* the usage counters are unchanged.
C18_TimerInBackground ==
    [][/\ Len(timer_tasks') > Len(timer_tasks) =>
             /\ Val(last_intent').handler = Some("timer")
             /\ Val(last_intent').result.success
             /\ timer_tasks'[Len(timer_tasks')].due =
                    now + Val(Val(last_intent').result.data).duration
             /\ timer_tasks'[Len(timer_tasks')].timer_id \in DOMAIN active_timers'
       /\ Len(timer_tasks') < Len(timer_tasks) =>
             UNCHANGED <<now, intent_stats, last_intent, coroVars, pipeVars, engineVars,
                         gateVars>>]_vars

\* the timer set in this turn has completed while the turn waits for the
\* synthesizer
C18_Witness ==
    /\ pc = "tts"
    /\ ~IsNone(last_intent) /\ Val(last_intent).handler = Some("timer")
    /\ Val(last_intent).result.success
    /\ timer_tasks = <<>> /\ active_timers = <<>>
    /\ turn.assistant_text = Some(Val(last_intent).result.response_text)

\* C19: the language model's initialization adopts the first backend that
\* is usable: the ollama service if it is running, otherwise the llama.cpp
\* binary if it is on disk.  So a backend adopted is ollama only with the
\* service running, llama.cpp only without it, and with the service down,
\* the binary and a model file present, the initialization succeeds with
\* llama.cpp.
C19_BackendPriority ==
    /\ llm_backend = "ollama" => machine.ollama_ready
    /\ llm_backend = "llamacpp" => (~machine.ollama_ready /\ machine.llamacpp_bin)
    /\ (/\ llm_backend # "none"
        /\ ~machine.ollama_ready /\ machine.llamacpp_bin /\ machine.model_file) =>
           (llm_backend = "llamacpp" /\ llm_initialized)

C21_ListensAgain ==
    (Active(stack) > 0 /\ ~is_listening) ~> (is_listening \/ ~is_running)

\* the gate listens again, inside the callback, after a turn that failed
C21_Witness ==
    /\ Active(stack) > 0 /\ is_listening /\ is_running
    /\ pc = "idle" /\ Returned /\ ~turn.success

\* C22: whenever the image capture failed or the detection model failed in
\* a describe_scene call, what the call returned is the apology, not a scene
\* description
C22_ApologyOnFailure ==
    (/\ ~IsNone(vision.result)
     /\ \/ vision.model_failed
        \/ Val(vision.result).error_message = Some(<<"Failed to capture image">>))
        => /\ ~IsNone(description)
           /\ Val(description)[1] = "I'm sorry, I couldn't analyze the scene. "

\* a string with at least one character
NonEmpty(text) == \E i \in DOMAIN text : text[i] # ""

\* C23: the result of classify_and_handle for a text that is not blank has
\* a confidence between 0.0 and 1.0 (in tenths) and a response_text that is
\* not empty, whatever path produced it
C23_ResultWellFormed ==
    (~IsNone(last_intent) /\ ~IsBlank(Val(last_intent).user_text))
        => LET r == Val(last_intent).result
           IN /\ r.confidence \in 0..10
              /\ NonEmpty(r.response_text)
              /\ ~r.success => (NonEmpty(r.response_text) \/ ~IsNone(r.error_message))

\* every path has returned: the vision short-circuit, a handler's success, a
\* handler's failure, a handler's exception and the generative fallback; the
\* witness is the exception path
C23_Witness ==
    /\ ~IsNone(last_intent) /\ ~IsBlank(Val(last_intent).user_text)
    /\ ~Val(last_intent).result.success
    /\ ~IsNone(Val(last_intent).result.error_message)
    /\ ~IsNone(Val(last_intent).handler)

\* C24: a classify_and_handle call with a null, empty or whitespace-only
\* text returns kind Unknown with success = false, confidence 0.0 and the
\* "didn't hear anything" response; it invokes no handler and changes no
\* counter, no timer and no task.
C24_BlankInput ==
    [][(ncalls' # ncalls /\ IsBlank(Val(last_intent').user_text)) =>
          /\ Val(last_intent').result =
                 IntentResult("unknown", 0,
                     <<"I didn't hear anything. Could you please repeat that?">>,
                     FALSE, None, None)
          /\ IsNone(Val(last_intent').handler)
          /\ UNCHANGED <<intent_stats, active_timers, timer_tasks>>]_vars

\* a whitespace-only text was classified after a timer request had been counted
C24_Witness ==
    /\ ~IsNone(last_intent)
    /\ Val(last_intent).user_text = Some(<<SP>>)
    /\ Val(last_intent).result.intent_type = "unknown"
    /\ intent_stats["timer"].count = 1

\* the result r against the groups g of an explicit pattern
C25_Groups(r, g) ==
    /\ r.success
    /\ Val(r.data).duration =
           ParseInt(g[1]) * (IF g[2] = <<"second">> THEN 1
                             ELSE IF g[2] = <<"minute">> THEN 60 ELSE 3600)

\* the result r against the first integer of the text, if there is one
C25_Number(r, number, text) ==
    IF IsNone(number) THEN ~r.success
    ELSE /\ r.success
         /\ Val(r.data).duration =
                ParseInt(Val(number)) * (IF Contains(text, <<"hour">>) THEN 3600
                                         ELSE IF Contains(text, <<"second">>) THEN 1
                                         ELSE 60)

\* first is the first explicit pattern that matches the text, or 0
C25_Result(r, text, pats, first) ==
    /\ IF first = 0 THEN C25_Number(r, FirstNumber(text), text)
       ELSE C25_Groups(r, ReGroups(pats[first], text))
    /\ (\A i \in DOMAIN text : text[i] \notin Digits) => ~r.success
    /\ text = <<"set", SP, "a", SP, "time", "r", SP, "for", SP, "5", SP, "minute", "s">>
         => Val(r.data).duration = 300
    /\ text = <<"start", SP, "a", SP, "3", "0", SP, "second", SP, "time", "r">>
         => Val(r.data).duration = 30
    /\ text = <<"remind", SP, "me", SP, "in", SP, "2", SP, "hour", "s">>
         => Val(r.data).duration = 7200

C25_Text(r, text) ==
    C25_Result(r, text, Patterns("timer"), FirstPattern(Patterns("timer"), 1, text))

\* C25: a call that the Timer handler answers sets a timer of amount x 1, x 60
\* or x 3600 seconds for the amount and the unit (second, minute, hour) of the
\* first explicit pattern that matches; when no pattern matches, of the first
\* integer in the text, in hours if the text contains "hour", else in
\* seconds if it contains "second", else in minutes; and when the text has no
\* digit the result has success = false and no timer is created.
C25_ParsedDuration ==
    [][(/\ ncalls' # ncalls
        /\ Val(last_intent').handler = Some("timer")
        /\ IsNone(machine.handler)) =>
          /\ C25_Text(Val(last_intent').result, Lower(Val(Val(last_intent').user_text)))
          /\ ~Val(last_intent').result.success
                => UNCHANGED <<active_timers, timer_tasks>>]_vars

\* the fallback chose hours for a text that names seconds as well, after an
\* explicit pattern had set a timer of 5 minutes
C25_Witness ==
    /\ ~IsNone(last_intent)
    /\ Val(last_intent).user_text =
           Some(<<"alarm", SP, "2", SP, "second", "s", SP, "past", SP, "the", SP, "hour">>)
    /\ Val(last_intent).handler = Some("timer")
    /\ Val(last_intent).result.success
    /\ Val(Val(last_intent).result.data).duration = 7200
    /\ \E id \in DOMAIN active_timers : active_timers[id].duration = 7200
    /\ \E i \in DOMAIN timer_tasks : timer_tasks[i].duration = 300

\* C26: the Translation handler answers a request for a word that is not
\* in the glossary, or for a language the word has no entry for, with
\* success = false and a response_text that names the supported vocabulary
\* (or the supported languages); a known word and language gives the
\* glossary entry.
C26_ClarifyingFailure ==
    (/\ ~IsNone(last_intent)
     /\ Val(last_intent).handler = Some("translation")
     /\ ~IsNone(Val(last_intent).result.data)) =>
        LET r == Val(last_intent).result
            word == Val(r.data).word
            language == Val(r.data).language
        IN IF word \notin DOMAIN Translations
           THEN /\ ~r.success
                /\ r.response_text[Len(r.response_text)]
                       = "hello, goodbye, thank you, please, yes, no, water, food, house, good"
           ELSE IF language[1] \notin DOMAIN Translations[word]
           THEN /\ ~r.success
                /\ r.response_text[Len(r.response_text)]
                       = ". I can translate to Spanish, French, or German."
           ELSE /\ r.success
                /\ Contains(r.response_text, <<Translations[word][language[1]]>>)

\* the phrase for class c in the detections d: "a {class}", or the count
\* and the plural
C27_Phrase(d, c) ==
    IF Cardinality({i \in DOMAIN d : d[i].class_name = c}) = 1
    THEN <<"a", SP, c>>
    ELSE IntStr(Cardinality({i \in DOMAIN d : d[i].class_name = c})) \o <<SP, c, "s">>

\* the phrases of the classes o[i..Len(o) - 1], each followed by a comma
RECURSIVE C27_Commas(_, _, _)
C27_Commas(d, o, i) ==
    IF i >= Len(o) THEN <<>>
    ELSE C27_Phrase(d, o[i]) \o <<",", SP>> \o C27_Commas(d, o, i + 1)

\* the sentence for the classes of d taken in the order o
C27_Sentence(d, o) ==
    IF Len(o) = 1 THEN <<"I can see ">> \o C27_Phrase(d, o[1]) \o <<".">>
    ELSE IF Len(o) = 2
    THEN <<"I can see ">> \o C27_Phrase(d, o[1]) \o <<SP, "and", SP>>
           \o C27_Phrase(d, o[2]) \o <<".">>
    ELSE <<"I can see ">> \o C27_Commas(d, o, 1) \o <<"and", SP>>
           \o C27_Phrase(d, o[Len(o)]) \o <<".">>

\* the orders in which the classes of d can be listed, each class once
C27_Orders(classes) ==
    {o \in [1..Cardinality(classes) -> classes] :
        \A i, j \in DOMAIN o : o[i] = o[j] => i = j}

\* text is the sentence for d, after the caller's prompt if there is one
C27_Describes(text, d) ==
    \E o \in C27_Orders({d[i].class_name : i \in DOMAIN d}) :
        \/ text = C27_Sentence(d, o)
        \/ /\ Len(text) > Len(C27_Sentence(d, o))
           /\ SubSeq(text, Len(text) - Len(C27_Sentence(d, o)) + 1, Len(text))
                  = C27_Sentence(d, o)

\* the sentence for a single detection names its confidence
C27_Single(text, d) ==
    LET s == <<"I can see ", "a", SP, d[1].class_name, SP, "with", SP>>
               \o IntStr(d[1].confidence) \o <<"%", SP, "confidence.">>
    IN /\ Len(text) >= Len(s)
       /\ SubSeq(text, Len(text) - Len(s) + 1, Len(text)) = s

\* C27 as stated: the description of a successful analysis is the fixed
\* sentence for no detection, and otherwise "I can see" followed by one
\* phrase per distinct class ("a {class}" or "{count} {class}s"): the phrase
\* alone for one class, "X and Y" for two, "a, b, and c" for three or more.
C27_OnePhrasePerClass ==
    (~IsNone(vision.result) /\ Val(vision.result).success) =>
        IF Val(vision.result).detections = <<>>
        THEN Val(vision.result).description[Len(Val(vision.result).description)]
                 = "I don't see any recognizable objects in the image."
        ELSE C27_Describes(Val(vision.result).description, Val(vision.result).detections)

\* C27, amended: the same, except that for a list of exactly one detection
\* the sentence is "I can see a {class} with {confidence}% confidence."
C27_OnePhrasePerClassOrConfidence ==
    (~IsNone(vision.result) /\ Val(vision.result).success) =>
        IF Val(vision.result).detections = <<>>
        THEN Val(vision.result).description[Len(Val(vision.result).description)]
                 = "I don't see any recognizable objects in the image."
        ELSE IF Len(Val(vision.result).detections) = 1
        THEN C27_Single(Val(vision.result).description, Val(vision.result).detections)
        ELSE C27_Describes(Val(vision.result).description, Val(vision.result).detections)

\* four classes were detected and listed with the comma before "and"
C27_Witness ==
    /\ ~IsNone(vision.result) /\ Val(vision.result).success
    /\ Len(Val(vision.result).detections) = 4
    /\ Val(vision.result).description =
           <<"I can see ", "a", SP, "person", ",", SP, "a", SP, "chair", ",", SP,
             "a", SP, "cup", ",", SP, "and", SP, "a", SP, "book", ".">>

\* C28: in text-only mode, the turn returned for "What time is it?" by an
\* initialized pipeline was answered by the Time handler: it has success =
\* true and the assistant_text "It's currently HH:MM AM" or "... PM", neither
\* the transcription nor the language model was called, and the turn is the
\* last of the history.
C28_TimeHandledLocally ==
    (/\ Returned
     /\ mode = "text_only"
     /\ IsNone(machine.intents)
     /\ turn.user_text = Some(<<"What", SP, "time", SP, "is", SP, "it", "?">>)) =>
        /\ turn.success
        /\ Val(last_intent).handler = Some("time")
        /\ ~IsNone(turn.assistant_text)
        /\ Len(Val(turn.assistant_text)) = 8
        /\ Val(turn.assistant_text)[1] = "It's currently "
        /\ \A i \in {2, 3, 5, 6} : Val(turn.assistant_text)[i] \in Digits
        /\ Val(turn.assistant_text)[4] = ":"
        /\ Val(turn.assistant_text)[7] = SP
        /\ Val(turn.assistant_text)[8] \in {"AM", "PM"}
        /\ "stt" \notin Range(calls) /\ "generate" \notin Range(calls)
        /\ conversation_history # <<>>
        /\ conversation_history[Len(conversation_history)] = turn

\* the turn for "What time is it?" has returned in text-only mode
C28_Witness ==
    /\ Returned /\ mode = "text_only" /\ is_initialized
    /\ turn.user_text = Some(<<"What", SP, "time", SP, "is", SP, "it", "?">>)
    /\ turn.assistant_text = Some(<<"It's currently ", "1", "2", ":", "0", "0", SP, "AM">>)
    /\ calls = <<"classify", "tts">>

\* C29: a turn that is returned as failed, without an exception, carries one
\* of four error messages, and the message tells the stage that failed: the
\* pipeline was not initialized; no utterance was acquired; an utterance was
\* acquired and no response produced; a response was produced and its
\* synthesis, the last collaborator called, failed.
C29_DistinctFailures ==
    [][(CallReturns /\ ~turn'.success /\ "raise" \notin Range(calls')) =>
          /\ turn'.error_message \in
                 { Some("Pipeline not initialized"),
                   Some("No speech detected or transcription failed"),
                   Some("No response generated"),
                   Some("Text-to-speech failed") }
          /\ turn'.error_message = Some("Pipeline not initialized")
                <=> ~is_initialized
          /\ turn'.error_message = Some("No speech detected or transcription failed")
                <=> (is_initialized /\ IsBlank(turn'.user_text))
          /\ turn'.error_message = Some("No response generated")
                <=> (/\ is_initialized /\ ~IsBlank(turn'.user_text)
                     /\ IsBlank(turn'.assistant_text)
                     /\ "tts" \notin Range(calls'))
          /\ turn'.error_message = Some("Text-to-speech failed")
                <=> (/\ ~IsBlank(turn'.assistant_text)
                     /\ Top(calls') = "tts")]_vars

\* a turn failed for want of a response after the language model was called
C29_Witness ==
    /\ Returned /\ ~turn.success
    /\ turn.error_message = Some("No response generated")
    /\ Top(calls) = "generate"


\* C30: a listening detector with a registered callback, coroutine function
\* or plain function, invokes the callback once for each trigger it detects
\* and at no other time, and detects a trigger only while it is listening
\* and no earlier invocation of the callback is still running
C30_OncePerTrigger ==
    [][/\ triggers' # triggers =>
            /\ triggers' = triggers + 1
            /\ is_listening
            /\ "on_wake_word" \notin Range(stack)
            /\ on_wake_word # "none" => invoked' = invoked + 1
            /\ on_wake_word = "coroutine" => Top(stack') = "on_wake_word"
       /\ invoked' # invoked => triggers' = triggers + 1]_vars

\* the second trigger has been detected and its coroutine callback is running
C30_Witness ==
    /\ on_wake_word = "coroutine"
    /\ triggers = 2 /\ invoked = 2
    /\ Top(stack) = "on_wake_word"


\* C31: the callback is invoked only while the detector is listening, so for
\* no trigger after stop_listening, and a running start_listening returns
\* only after an explicit stop has set is_listening to false
C31_StoppedOnlyByStop ==
    [][/\ invoked' # invoked => is_listening
       /\ (stack # <<>> /\ stack[1] = "start_listening" /\ stack' = <<>>) => ~is_listening]_vars


\* the mode arguments the entry point knows
C32_Known == {<<"hardware">>, <<"simulation">>, <<"text">>}

\* C32: an entry point given a mode argument other than hardware, simulation
\* or text prints usage and constructs and starts nothing; given hardware,
\* simulation or text it constructs the assistant in the hardware,
\* simulation or text-only mode
C32_ModeSelected ==
    [][/\ (cli.state = "launched" /\ cli'.state # "launched" /\ Len(cli.argv) > 0) =>
            /\ Lower(cli.argv[1]) \notin C32_Known => cli'.state = "usage"
            /\ Lower(cli.argv[1]) = <<"hardware">> =>
                    cli'.state = "constructed" /\ mode' = "hardware"
            /\ Lower(cli.argv[1]) = <<"simulation">> =>
                    cli'.state = "constructed" /\ mode' = "simulation"
            /\ Lower(cli.argv[1]) = <<"text">> =>
                    cli'.state = "constructed" /\ mode' = "text_only"
       /\ cli'.state = "usage" => ~is_initialized' /\ detector' = "none"]_vars


\* the number of a handler's keywords contained in a lowercased text
C33_K(kws, text_lower) == Cardinality({i \in DOMAIN kws : Contains(text_lower, kws[i])})

\* 0.5 if one of a handler's patterns matches the lowercased text, in tenths
C33_P(pats, text_lower) == IF \E i \in DOMAIN pats : ReSearch(pats[i], text_lower) THEN 5 ELSE 0

\* min(1.0, min(0.3 k, 0.7) + p), in tenths
C33_Formula(k, p) == IF k * 3 < 7 THEN (IF k * 3 + p < 10 THEN k * 3 + p ELSE 10)
                                  ELSE (IF 7 + p < 10 THEN 7 + p ELSE 10)

C33_Score(kind, text) ==
    /\ IntentMatches(kind, text)
          = C33_Formula(C33_K(Keywords(kind), Lower(text)), C33_P(Patterns(kind), Lower(text)))
    /\ IntentMatches(kind, text) \in {0, 3, 5, 6, 7, 8, 10}

\* C33: for every handler and every text classified, matches(text) is
\* min(1.0, min(0.3 k, 0.7) + p) for the k keywords found and the pattern
\* bonus p, hence one of 0, 0.3, 0.5, 0.6, 0.7, 0.8 and 1.0
C33_MatchesFormula ==
    [][(ncalls' # ncalls /\ ~IsNone(Val(last_intent').user_text)) =>
          \A i \in DOMAIN Intents : C33_Score(Intents[i], Val(Val(last_intent').user_text))]_vars

\* a text with three timer keywords and no timer pattern was classified:
\* the keyword part was capped at 0.7
C33_Witness ==
    /\ ~IsNone(last_intent) /\ ~IsNone(Val(last_intent).user_text)
    /\ C33_K(Keywords("timer"), Lower(Val(Val(last_intent).user_text))) = 3
    /\ IntentMatches("timer", Val(Val(last_intent).user_text)) = 7


\* the highest score a text gets
C34_Max(text) == CHOOSE s \in Scores(text) : \A t \in Scores(text) : t <= s

\* the first handler in registration order with the score max
C34_First(text, max) ==
    Intents[CHOOSE i \in DOMAIN Intents :
                /\ IntentMatches(Intents[i], text) = max
                /\ \A j \in 1..(i - 1) : IntentMatches(Intents[j], text) < max]

C34_Winner(text, max, handler) ==
    /\ BestIntent(text).intent = IF max = 0 THEN None ELSE Some(C34_First(text, max))
    /\ BestIntent(text).confidence = max
    /\ max > 3 => handler = Some(C34_First(text, max))
    /\ max <= 3 => handler = None

\* C34: the winner of a classification is the first handler in the order
\* timer, weather, time, translation among those with the highest score, and
\* there is none when every score is 0; the handler invoked is that winner
C34_FirstMaxWins ==
    [][(/\ ncalls' # ncalls
        /\ ~IsBlank(Val(last_intent').user_text)
        /\ ~VisionText(Val(last_intent').user_text)) =>
          C34_Winner(Val(Val(last_intent').user_text),
                     C34_Max(Val(Val(last_intent').user_text)),
                     Val(last_intent').handler)]_vars

\* a text that the weather handler and the time handler both score 0.6 was
\* classified, and the weather handler was invoked
C34_Witness ==
    /\ ~IsNone(last_intent) /\ ~IsBlank(Val(last_intent).user_text)
    /\ IntentMatches("weather", Val(Val(last_intent).user_text)) = 6
    /\ IntentMatches("time", Val(Val(last_intent).user_text)) = 6
    /\ Val(last_intent).handler = Some("weather")


\* the list conversation_loop(max_turns) has built, max_turns >= 1
C35_Shape(l) ==
    /\ Len(l.conversation_turns) <= l.max_turns
    /\ \A i \in 1..(Len(l.conversation_turns) - 1) : l.conversation_turns[i].success
    /\ l.state = "returned" =>
          /\ Len(l.conversation_turns) >= 1
          /\ \/ Len(l.conversation_turns) = l.max_turns
             \/ ~l.conversation_turns[Len(l.conversation_turns)].success

\* C35: conversation_loop(max_turns) with max_turns >= 1 returns between 1
\* and max_turns turns, all but possibly the last of them successful, and
\* calls process_voice_input only while every turn so far has succeeded
C35_StopsAtFirstFailure ==
    [][/\ loop'.max_turns >= 1 => C35_Shape(loop')
       /\ (loop.state # "none" /\ ncalls' # ncalls) =>
             \A i \in DOMAIN loop.conversation_turns : loop.conversation_turns[i].success]_vars

\* a loop of three turns has returned two: the second one failed
C35_Witness ==
    /\ loop.state = "returned" /\ loop.max_turns = 3
    /\ Len(loop.conversation_turns) = 2
    /\ loop.conversation_turns[1].success
    /\ ~loop.conversation_turns[2].success


\* C36: once stop() has run on an assistant, is_listening stays false, the
\* callback is not invoked and process_voice_input is not called again,
\* also when stop() ran while a turn was in progress
C36_NoRestartAfterStop ==
    [][(~is_running /\ detector # "none") =>
          /\ ~is_listening'
          /\ invoked' = invoked
          /\ ncalls' = ncalls]_vars

\* stop() has run while a turn was waiting for the speech synthesis, and
\* the turn is still in progress
C36_Witness ==
    /\ ~is_running /\ detector = "mock"
    /\ pc = "tts"
    /\ Top(stack) = "_handle_conversation"


\* C37: every analyze_scene call made on an initialized vision pipeline
\* increases analysis_count by exactly one, whatever its outcome, and
\* successful_analyses by one on success only, so that
\* successful_analyses <= analysis_count
C37_EveryCallCounted ==
    [][(vision.is_initialized /\ vision'.calls = vision.calls + 1) =>
          /\ vision'.analysis_count = vision.analysis_count + 1
          /\ vision'.successful_analyses =
                 vision.successful_analyses
                   + (IF Val(vision'.result).success THEN 1 ELSE 0)
          /\ vision'.successful_analyses <= vision'.analysis_count]_vars


\* C38: after SpeechPipeline.cleanup() a process_voice_input call returns the
\* 'Pipeline not initialized' failure turn and calls no collaborator, until
\* initialize() has succeeded again (the audio of the speech recognition is
\* terminated by cleanup() and opened again by initialize())
C38_NotReadyAfterCleanup ==
    [][(stt_audio = "terminated" /\ ncalls' = ncalls + 1) =>
          /\ pc' = "idle"
          /\ ~turn'.success
          /\ turn'.error_message = Some("Pipeline not initialized")
          /\ calls' = <<>>]_vars

=============================================================================
